---- MODULE Spec2Model ----
(***************************************************************************)
(* Visual-Prompting: the prompt schema (schema.py), the response           *)
(* flattener reponse_to_string (prompt/parser.py), the builders of the     *)
(* system prompt templates (prompt/creation.py), run_llm (llm.py) and the  *)
(* endpoint generate_with_image (app.py).                                  *)
(*                                                                         *)
(* Five specifications share the variables: Spec (construction,            *)
(* assignment and flattening of one instance), TemplateSpec (one call of   *)
(* a function of creation.py), RunLlmSpec (one call of run_llm),           *)
(* AppSpec (one request to generate_with_image) and ConcurrentSpec (two    *)
(* callers at the same time).                                              *)
(*                                                                         *)
(* A Python str is modelled as a sequence of one-character strings, so     *)
(* that strip, replace, join and concatenation are computed character by   *)
(* character as the interpreter computes them.  The text a tuple spells    *)
(* is given in the comment beside it.  A text of several lines (the        *)
(* templates and their parts) is the sequence of its lines; a character    *)
(* outside the printable ASCII set, and the backquote, is the one-element  *)
(* string that names its code point ("U+2022").                            *)
(***************************************************************************)
EXTENDS Integers, Sequences, FiniteSets, TLC

VARIABLES
    args,     \* the keyword arguments handed to the model constructor;
              \* elsewhere the function called, its arguments and what its
              \* environment answers
    prompt,   \* the ImagePrompt / VideoPrompt instance, once constructed
    pc,       \* "new" | "built" | "done" | "ValidationError"; elsewhere the
              \* position in the function called, from "call" to "returned"
              \* or "raised"
    out,      \* the value returned by the function called, or the exception
              \* that left it
    nassign,  \* number of attribute assignments attempted on the instance
    effects,  \* the calls made so far to collaborators and to the file
              \* system (LLM client, template builder, file reads and writes)
    files,    \* the files that exist: the reference images of run_llm and
              \* the content of the uploads directory of the web endpoint
    frame     \* the local variables of the function called, per caller
              \* when there are several

vars == <<args, prompt, pc, out, nassign, effects, files, frame>>

\* The flattener and the template builder touch no file, call no
\* collaborator and keep no locals between steps.
NoFrame == [fn |-> "none"]
Idle == effects = <<>> /\ files = {} /\ frame = NoFrame
world == <<effects, files, frame>>

\* Number of attribute assignments explored on one instance.
MaxAssign == 2

-----------------------------------------------------------------------------
(* Python values and str operations                                        *)

\* Python's None.  Characters are one-character strings, so this tuple is
\* not the image of any str.
None == <<"None">>

\* bool(v) for an Optional[str]: None and "" are falsy.
Truthy(v) == v # None /\ v # <<>>

\* The characters str.strip() removes (the ASCII whitespace used here).
Whitespace == {" ", "\t", "\n"}

\* str.strip()
strip(s) ==
    LET keep == {i \in 1..Len(s) : s[i] \notin Whitespace}
    IN  IF keep = {} THEN <<>>
        ELSE SubSeq(s, CHOOSE i \in keep : \A j \in keep : i <= j,
                       CHOOSE i \in keep : \A j \in keep : i >= j)

\* str.replace(old, new) for one-character old and new
replace(s, old, new) == [i \in 1..Len(s) |-> IF s[i] = old THEN new ELSE s[i]]

\* sep.join(xs)
RECURSIVE join(_, _)
join(sep, xs) ==
    IF xs = <<>> THEN <<>>
    ELSE IF Len(xs) = 1 THEN xs[1]
    ELSE xs[1] \o sep \o join(sep, Tail(xs))

\* "if cond: lst.append(x)" as the list it contributes
Append1(cond, x) == IF cond THEN <<x>> ELSE <<>>

-----------------------------------------------------------------------------
(* schema.py: enumerations (use_enum_values = True stores the str value)   *)

AspectRatio ==
    { <<"1",":","1">>, <<"1","6",":","9">>, <<"9",":","1","6">>, <<"4",":","3">>, <<"2","1",":","9">>, <<"3",":","2">> }   \* "1:1" "16:9" "9:16" "4:3" "21:9" "3:2"

ShotType ==
    { <<"e","x","t","r","e","m","e","_","w","i","d","e","_","s","h","o","t">>, <<"w","i","d","e","_","s","h","o","t">>, <<"m","e","d","i","u","m","_","w","i","d","e","_","s","h","o","t">>, <<"m","e","d","i","u","m","_","s","h","o","t">>,   \* "extreme_wide_shot" "wide_shot" "medium_wide_shot" "medium_shot"
      <<"m","e","d","i","u","m","_","c","l","o","s","e","_","u","p">>, <<"c","l","o","s","e","_","u","p">>, <<"e","x","t","r","e","m","e","_","c","l","o","s","e","_","u","p">>, <<"b","i","r","d","_","e","y","e","_","v","i","e","w">>,   \* "medium_close_up" "close_up" "extreme_close_up" "bird_eye_view"
      <<"l","o","w","_","a","n","g","l","e">>, <<"h","i","g","h","_","a","n","g","l","e">>, <<"e","y","e","_","l","e","v","e","l">> }   \* "low_angle" "high_angle" "eye_level"

CameraMovement ==
    { <<"s","t","a","t","i","c">>, <<"p","a","n">>, <<"t","i","l","t">>, <<"z","o","o","m","_","i","n">>, <<"z","o","o","m","_","o","u","t">>, <<"d","o","l","l","y">>,   \* "static" "pan" "tilt" "zoom_in" "zoom_out" "dolly"
      <<"t","r","a","c","k","i","n","g">>, <<"h","a","n","d","h","e","l","d">>, <<"d","r","o","n","e">>, <<"c","r","a","n","e">> }   \* "tracking" "handheld" "drone" "crane"

PhotographyType ==
    { <<"p","o","r","t","r","a","i","t">>, <<"l","a","n","d","s","c","a","p","e">>, <<"m","a","c","r","o">>, <<"s","t","r","e","e","t">>, <<"p","r","o","d","u","c","t">>,   \* "portrait" "landscape" "macro" "street" "product"
      <<"a","r","c","h","i","t","e","c","t","u","r","a","l">>, <<"w","i","l","d","l","i","f","e">>, <<"f","o","o","d">>, <<"f","a","s","h","i","o","n">>, <<"a","b","s","t","r","a","c","t">>,   \* "architectural" "wildlife" "food" "fashion" "abstract"
      <<"s","t","u","d","i","o">>, <<"d","o","c","u","m","e","n","t","a","r","y">> }   \* "studio" "documentary"

LensType ==
    { <<"w","i","d","e","_","a","n","g","l","e">>, <<"s","t","a","n","d","a","r","d">>, <<"p","o","r","t","r","a","i","t">>, <<"t","e","l","e","p","h","o","t","o">>, <<"m","a","c","r","o">>, <<"f","i","s","h","e","y","e">> }   \* "wide_angle" "standard" "portrait" "telephoto" "macro" "fisheye"

LightingType ==
    { <<"n","a","t","u","r","a","l">>, <<"g","o","l","d","e","n","_","h","o","u","r">>, <<"b","l","u","e","_","h","o","u","r">>, <<"s","t","u","d","i","o">>, <<"s","o","f","t","_","b","o","x">>,   \* "natural" "golden_hour" "blue_hour" "studio" "soft_box"
      <<"h","a","r","d","_","l","i","g","h","t">>, <<"b","a","c","k","l","i","g","h","t","i","n","g">>, <<"s","i","d","e","_","l","i","g","h","t","i","n","g">>, <<"r","i","n","g","_","l","i","g","h","t">>,   \* "hard_light" "backlighting" "side_lighting" "ring_light"
      <<"c","a","n","d","l","e","l","i","g","h","t">>, <<"n","e","o","n">> }   \* "candlelight" "neon"

\* Field(...) of a str field: required iff the default is the Ellipsis.
StrField(req, dflt, lo, hi) ==
    [type |-> "str", required |-> req, default |-> dflt, min_length |-> lo, max_length |-> hi]

\* Field(...) of an Optional[Enum] or Optional[Literal[...]] field.
ChoiceField(dflt, choices) ==
    [type |-> "choice", required |-> FALSE, default |-> dflt, choices |-> choices]

\* class ImagePrompt(BaseModel): field name |-> declaration
ImagePrompt ==
    [ subject               |-> StrField(TRUE, None, 5, 300),
      scene_description     |-> StrField(TRUE, None, 10, 400),
      photography_type      |-> ChoiceField(None, PhotographyType),
      lens_type             |-> ChoiceField(None, LensType),
      focal_length          |-> StrField(FALSE, None, 0, 20),
      lighting_type         |-> ChoiceField(None, LightingType),
      lighting_description  |-> StrField(FALSE, None, 0, 250),
      color_palette         |-> StrField(FALSE, None, 0, 200),
      shot_type             |-> ChoiceField(None, ShotType),
      composition_technique |-> StrField(FALSE, None, 0, 250),
      artistic_style        |-> StrField(FALSE, None, 0, 200),
      mood_and_emotion      |-> StrField(FALSE, None, 0, 150),
      aspect_ratio          |-> ChoiceField(<<"1","6",":","9">>, AspectRatio),   \* "16:9"
      image_quality         |-> ChoiceField(<<"h","i","g","h">>, {<<"s","t","a","n","d","a","r","d">>, <<"h","i","g","h">>, <<"u","l","t","r","a">>, <<"a","r","t","i","s","t","i","c">>}),   \* "high" "standard" "high" "ultra" "artistic"
      camera_settings       |-> StrField(FALSE, None, 0, 200),
      negative_prompt       |-> StrField(FALSE, None, 0, 200),
      style_reference       |-> StrField(FALSE, None, 0, 150) ]

\* class VideoPrompt(BaseModel): field name |-> declaration
VideoPrompt ==
    [ subject             |-> StrField(TRUE, None, 3, 200),
      context             |-> StrField(TRUE, None, 5, 300),
      action              |-> StrField(TRUE, None, 5, 250),
      style               |-> StrField(TRUE, None, 5, 200),
      camera_movement     |-> ChoiceField(None, CameraMovement),
      camera_description  |-> StrField(FALSE, None, 0, 200),
      shot_type           |-> ChoiceField(None, ShotType),
      composition         |-> StrField(FALSE, None, 0, 200),
      lighting            |-> StrField(FALSE, None, 0, 200),
      ambiance            |-> StrField(FALSE, None, 0, 200),
      aspect_ratio        |-> ChoiceField(<<"1","6",":","9">>, AspectRatio),   \* "16:9"
      duration_preference |-> ChoiceField(<<"m","e","d","i","u","m">>, {<<"s","h","o","r","t">>, <<"m","e","d","i","u","m">>, <<"l","o","n","g">>}),   \* "medium" "short" "medium" "long"
      motion_intensity    |-> ChoiceField(<<"m","o","d","e","r","a","t","e">>, {<<"s","u","b","t","l","e">>, <<"m","o","d","e","r","a","t","e">>, <<"d","y","n","a","m","i","c">>, <<"i","n","t","e","n","s","e">>}),   \* "moderate" "subtle" "moderate" "dynamic" "intense"
      negative_prompt     |-> StrField(FALSE, None, 0, 200),
      reference_style     |-> StrField(FALSE, None, 0, 150),
      transition_type     |-> StrField(FALSE, None, 0, 100),
      emotional_tone      |-> StrField(FALSE, None, 0, 100) ]

\* The model class named by an instance's type.
Schema(cls) == IF cls = "ImagePrompt" THEN ImagePrompt ELSE VideoPrompt

\* pydantic's validation of one field value against its declaration.
FieldValid(decl, v) ==
    IF v = None THEN ~decl.required
    ELSE IF decl.type = "choice" THEN v \in decl.choices
    ELSE Len(v) >= decl.min_length /\ Len(v) <= decl.max_length

\* BaseModel.__init__(**kwargs) accepts kwargs: required fields are supplied
\* and every supplied value validates (defaults are not validated).
InitValid(cls, kwargs) ==
    /\ \A f \in DOMAIN Schema(cls) : Schema(cls)[f].required => f \in DOMAIN kwargs
    /\ \A f \in DOMAIN kwargs : FieldValid(Schema(cls)[f], kwargs[f])

\* The instance BaseModel.__init__ builds: supplied values, else defaults.
\* The instance carries its class in the field cls (isinstance).
NewModel(cls, kwargs) ==
    [f \in DOMAIN Schema(cls) \cup {"cls"} |->
        IF f = "cls" THEN cls
        ELSE IF f \in DOMAIN kwargs THEN kwargs[f]
        ELSE Schema(cls)[f].default]

-----------------------------------------------------------------------------
(* prompt/parser.py: reponse_to_string                                     *)

\* Faulty variant: the scene description is appended before the subject.
ImageCore_SceneFirst(p) ==
       Append1(Truthy(p.scene_description), p.scene_description)
    \o Append1(Truthy(p.subject), p.subject)
    \o Append1(Truthy(p.photography_type), p.photography_type \o <<" ","p","h","o","t","o","g","r","a","p","h","y">>)   \* " photography"
    \o Append1(Truthy(p.artistic_style), p.artistic_style)

\* Core subject and scene, photography style: lines 19-30
ImageCore(p) ==
       Append1(Truthy(p.subject), p.subject)
    \o Append1(Truthy(p.scene_description), p.scene_description)
    \o Append1(Truthy(p.photography_type), p.photography_type \o <<" ","p","h","o","t","o","g","r","a","p","h","y">>)   \* " photography"
    \o Append1(Truthy(p.artistic_style), p.artistic_style)

\* Camera and lens specifications: lines 33-41
CameraSpecs(p) ==
    LET camera_specs ==
               Append1(Truthy(p.lens_type), p.lens_type \o <<" ","l","e","n","s">>)   \* " lens"
            \o Append1(Truthy(p.focal_length), p.focal_length)
            \o Append1(Truthy(p.camera_settings), p.camera_settings)
    IN  Append1(camera_specs # <<>>, join(<<","," ">>, camera_specs))   \* ", "

\* Faulty variant: type and description are appended as two fragments.
ImageLighting_TwoFragments(p) ==
       Append1(Truthy(p.lighting_type), p.lighting_type \o <<" ","l","i","g","h","t","i","n","g">>)   \* " lighting"
    \o Append1(Truthy(p.lighting_description), p.lighting_description)

\* Lighting and atmosphere: lines 44-50
ImageLighting(p) ==
    IF Truthy(p.lighting_type)
    THEN IF Truthy(p.lighting_description)
         THEN << p.lighting_type \o <<","," ">> \o p.lighting_description >>   \* ", "
         ELSE << p.lighting_type \o <<" ","l","i","g","h","t","i","n","g">> >>   \* " lighting"
    ELSE Append1(Truthy(p.lighting_description), p.lighting_description)

\* Faulty variant: the shot type is appended as it is stored.
CompositionParts_ShotAsStored(p) ==
    LET composition_parts ==
               Append1(Truthy(p.shot_type), p.shot_type)
            \o Append1(Truthy(p.composition_technique), p.composition_technique)
    IN  Append1(composition_parts # <<>>, join(<<","," ">>, composition_parts))   \* ", "

\* Composition and framing: lines 53-59
CompositionParts(p) ==
    LET composition_parts ==
               Append1(Truthy(p.shot_type), replace(p.shot_type, "_", " "))
            \o Append1(Truthy(p.composition_technique), p.composition_technique)
    IN  Append1(composition_parts # <<>>, join(<<","," ">>, composition_parts))   \* ", "

\* Color and mood: lines 62-66
ColorAndMood(p) ==
       Append1(Truthy(p.color_palette), p.color_palette)
    \o Append1(Truthy(p.mood_and_emotion), p.mood_and_emotion)

\* Quality and style references: lines 69-73
QualityAndReference(p) ==
       Append1(Truthy(p.image_quality) /\ p.image_quality # <<"s","t","a","n","d","a","r","d">>,   \* "standard"
               p.image_quality \o <<" ","q","u","a","l","i","t","y">>)   \* " quality"
    \o Append1(Truthy(p.style_reference), <<"i","n"," ","t","h","e"," ","s","t","y","l","e"," ","o","f"," ">> \o p.style_reference)   \* "in the style of "

\* parts, after the isinstance(prompt, ImagePrompt) branch: lines 17-73
ImageParts(p) ==
       ImageCore(p) \o CameraSpecs(p) \o ImageLighting(p) \o CompositionParts(p)
    \o ColorAndMood(p) \o QualityAndReference(p)

\* Faulty variant: the fields are visited in schema declaration order
\* (subject, context, action).
VideoCore_SchemaOrder(p) ==
       Append1(Truthy(p.subject), p.subject)
    \o Append1(Truthy(p.context), p.context)
    \o Append1(Truthy(p.action), p.action)

\* Core required elements: lines 77-84
VideoCore(p) ==
       Append1(Truthy(p.subject), p.subject)
    \o Append1(Truthy(p.action), p.action)
    \o Append1(Truthy(p.context), p.context)

\* Camera movement and composition: lines 87-97
CameraParts(p) ==
    LET camera_parts ==
               Append1(Truthy(p.camera_movement) /\ p.camera_movement # <<"s","t","a","t","i","c">>,   \* "static"
                       p.camera_movement \o <<" ","c","a","m","e","r","a"," ","m","o","v","e","m","e","n","t">>)   \* " camera movement"
            \o Append1(Truthy(p.camera_description), p.camera_description)
            \o Append1(Truthy(p.shot_type), replace(p.shot_type, "_", " "))
            \o Append1(Truthy(p.composition), p.composition)
    IN  Append1(camera_parts # <<>>, join(<<","," ">>, camera_parts))   \* ", "

\* Lighting and ambiance: lines 100-106
LightingParts(p) ==
    LET lighting_parts ==
               Append1(Truthy(p.lighting), p.lighting)
            \o Append1(Truthy(p.ambiance), p.ambiance)
    IN  Append1(lighting_parts # <<>>, join(<<","," ">>, lighting_parts))   \* ", "

\* Faulty variant: the transition type is appended after the style.
StyleAndEmotion_WithTransition(p) ==
       Append1(Truthy(p.style), p.style)
    \o Append1(Truthy(p.transition_type), p.transition_type)
    \o Append1(Truthy(p.emotional_tone), p.emotional_tone \o <<" ","t","o","n","e">>)   \* " tone"

\* Style and emotion: lines 109-113
StyleAndEmotion(p) ==
       Append1(Truthy(p.style), p.style)
    \o Append1(Truthy(p.emotional_tone), p.emotional_tone \o <<" ","t","o","n","e">>)   \* " tone"

\* Faulty variant: motion and duration are emitted whenever set, default or not.
MotionParts_NoDefaultCheck(p) ==
       Append1(Truthy(p.motion_intensity), p.motion_intensity \o <<" ","m","o","t","i","o","n">>)   \* " motion"
    \o Append1(Truthy(p.duration_preference), p.duration_preference \o <<" ","d","u","r","a","t","i","o","n">>)   \* " duration"

\* Motion characteristics: lines 116-120
MotionParts(p) ==
       Append1(Truthy(p.motion_intensity) /\ p.motion_intensity # <<"m","o","d","e","r","a","t","e">>,   \* "moderate"
               p.motion_intensity \o <<" ","m","o","t","i","o","n">>)   \* " motion"
    \o Append1(Truthy(p.duration_preference) /\ p.duration_preference # <<"m","e","d","i","u","m">>,   \* "medium"
               p.duration_preference \o <<" ","d","u","r","a","t","i","o","n">>)   \* " duration"

\* Style reference: lines 123-124
ReferenceStyle(p) ==
    Append1(Truthy(p.reference_style), <<"i","n"," ","t","h","e"," ","s","t","y","l","e"," ","o","f"," ">> \o p.reference_style)   \* "in the style of "

\* parts, after the isinstance(prompt, VideoPrompt) branch: lines 75-124
VideoParts(p) ==
       VideoCore(p) \o CameraParts(p) \o LightingParts(p)
    \o StyleAndEmotion(p) \o MotionParts(p) \o ReferenceStyle(p)

\* [part.strip() for part in parts if part and part.strip()]
RECURSIVE StrippedParts(_)
StrippedParts(parts) ==
    IF parts = <<>> THEN <<>>
    ELSE Append1(parts[1] # <<>> /\ strip(parts[1]) # <<>>, strip(parts[1]))
         \o StrippedParts(Tail(parts))

\* Faulty variant: the parts are joined with a bare space.
JoinParts_SpaceSeparated(parts) == join(<<" ">>, StrippedParts(parts))

\* ", ".join(part.strip() for part in parts if part and part.strip()): line 127
JoinParts(parts) == join(<<","," ">>, StrippedParts(parts))   \* ", "

\* Faulty variant: the directive is appended whenever the field is not None.
NegativeDirective_NotNone(p) ==
    IF p.negative_prompt # None
    THEN <<" ","-","-","n","e","g","a","t","i","v","e"," ">> \o p.negative_prompt   \* " --negative "
    ELSE <<>>

\* Add negative prompt if specified: lines 130-131
NegativeDirective(p) ==
    IF Truthy(p.negative_prompt)
    THEN <<" ","-","-","n","e","g","a","t","i","v","e"," ">> \o p.negative_prompt   \* " --negative "
    ELSE <<>>

\* Faulty variant: the aspect ratio is appended whenever it is set.
AspectDirective_NoDefaultCheck(p) ==
    IF Truthy(p.aspect_ratio) THEN <<" ","-","-","a","r"," ">> \o p.aspect_ratio ELSE <<>>   \* " --ar "

\* Add aspect ratio if not default: lines 134-136.  The schema default is
\* the member AspectRatio.WIDESCREEN, a str subclass equal to "16:9".
AspectDirective(p) ==
    IF Truthy(p.aspect_ratio) /\ p.aspect_ratio # <<"1","6",":","9">>   \* "16:9"
    THEN <<" ","-","-","a","r"," ">> \o p.aspect_ratio   \* " --ar "
    ELSE <<>>

\* parts as built by the branch on the instance's type: lines 15-124
Parts(p) ==
    IF p.cls = "ImagePrompt" THEN ImageParts(p)
    ELSE IF p.cls = "VideoPrompt" THEN VideoParts(p)
    ELSE <<>>

\* Faulty variant: the aspect-ratio directive is appended before the negative prompt.
reponse_to_string_ArFirst(p) ==
    JoinParts(Parts(p)) \o AspectDirective(p) \o NegativeDirective(p)

\* def reponse_to_string(prompt): lines 6-138
reponse_to_string(p) ==
    JoinParts(Parts(p)) \o NegativeDirective(p) \o AspectDirective(p)

-----------------------------------------------------------------------------
(* The records explored: constructor calls and attribute assignments       *)

\* The optional fields of a model class, each passed explicitly as None.
OptionalNone(cls) ==
    [f \in {g \in DOMAIN Schema(cls) : ~Schema(cls)[g].required} |-> None]

\* subject="a red bicycle", scene_description="on a cobblestone street"
ImageRequired ==
    [ subject |-> <<"a"," ","r","e","d"," ","b","i","c","y","c","l","e">>, scene_description |-> <<"o","n"," ","a"," ","c","o","b","b","l","e","s","t","o","n","e"," ","s","t","r","e","e","t">> ]   \* "a red bicycle" "on a cobblestone street"

\* An ImagePrompt with every field populated.
ImageFull ==
    [ subject               |-> <<"a"," ","r","e","d"," ","b","i","c","y","c","l","e">>,   \* "a red bicycle"
      scene_description     |-> <<"o","n"," ","a"," ","c","o","b","b","l","e","s","t","o","n","e"," ","s","t","r","e","e","t">>,   \* "on a cobblestone street"
      photography_type      |-> <<"p","r","o","d","u","c","t">>,   \* "product"
      lens_type             |-> <<"m","a","c","r","o">>,   \* "macro"
      focal_length          |-> <<"8","5","m","m">>,   \* "85mm"
      lighting_type         |-> <<"s","o","f","t","_","b","o","x">>,   \* "soft_box"
      lighting_description  |-> <<"g","e","n","t","l","e"," ","r","i","m"," ","g","l","o","w">>,   \* "gentle rim glow"
      color_palette         |-> <<"m","u","t","e","d"," ","p","a","s","t","e","l"," ","h","u","e","s">>,   \* "muted pastel hues"
      shot_type             |-> <<"c","l","o","s","e","_","u","p">>,   \* "close_up"
      composition_technique |-> <<"c","e","n","t","e","r","e","d"," ","f","r","a","m","i","n","g">>,   \* "centered framing"
      artistic_style        |-> <<"a","r","t"," ","d","e","c","o"," ","p","o","s","t","e","r">>,   \* "art deco poster"
      mood_and_emotion      |-> <<"c","a","l","m"," ","a","n","d"," ","q","u","i","e","t">>,   \* "calm and quiet"
      aspect_ratio          |-> <<"3",":","2">>,   \* "3:2"
      image_quality         |-> <<"u","l","t","r","a">>,   \* "ultra"
      camera_settings       |-> <<"I","S","O"," ","1","0","0">>,   \* "ISO 100"
      negative_prompt       |-> <<"g","r","a","i","n">>,   \* "grain"
      style_reference       |-> <<"V","i","v","i","a","n"," ","M","a","i","e","r">> ]   \* "Vivian Maier"

\* subject="a dog", context="in a park", action="runs fast", style="documentary"
VideoRequired ==
    [ subject |-> <<"a"," ","d","o","g">>, context |-> <<"i","n"," ","a"," ","p","a","r","k">>,   \* "a dog" "in a park"
      action |-> <<"r","u","n","s"," ","f","a","s","t">>, style |-> <<"d","o","c","u","m","e","n","t","a","r","y">> ]   \* "runs fast" "documentary"

\* A VideoPrompt with every field populated.
VideoFull ==
    [ subject             |-> <<"a"," ","d","o","g">>,   \* "a dog"
      context             |-> <<"i","n"," ","a"," ","p","a","r","k">>,   \* "in a park"
      action              |-> <<"r","u","n","s"," ","f","a","s","t">>,   \* "runs fast"
      style               |-> <<"d","o","c","u","m","e","n","t","a","r","y">>,   \* "documentary"
      camera_movement     |-> <<"z","o","o","m","_","i","n">>,   \* "zoom_in"
      camera_description  |-> <<"s","m","o","o","t","h"," ","d","o","l","l","y">>,   \* "smooth dolly"
      shot_type           |-> <<"l","o","w","_","a","n","g","l","e">>,   \* "low_angle"
      composition         |-> <<"s","h","a","l","l","o","w"," ","d","e","p","t","h">>,   \* "shallow depth"
      lighting            |-> <<"w","a","r","m"," ","s","u","n","l","i","g","h","t">>,   \* "warm sunlight"
      ambiance            |-> <<"s","p","r","i","n","g"," ","m","o","r","n","i","n","g">>,   \* "spring morning"
      aspect_ratio        |-> <<"2","1",":","9">>,   \* "21:9"
      duration_preference |-> <<"l","o","n","g">>,   \* "long"
      motion_intensity    |-> <<"d","y","n","a","m","i","c">>,   \* "dynamic"
      negative_prompt     |-> <<"b","l","u","r">>,   \* "blur"
      reference_style     |-> <<"M","i","y","a","z","a","k","i">>,   \* "Miyazaki"
      transition_type     |-> <<"s","e","a","m","l","e","s","s"," ","l","o","o","p">>,   \* "seamless loop"
      emotional_tone      |-> <<"p","l","a","y","f","u","l">> ]   \* "playful"

\* motion_intensity="moderate", duration_preference="medium", passed explicitly
VideoDefaultsExplicit ==
    [ motion_intensity |-> <<"m","o","d","e","r","a","t","e">>, duration_preference |-> <<"m","e","d","i","u","m">> ]   \* "moderate" "medium"

ImageCalls ==
    { ImageRequired,
      ImageRequired @@ OptionalNone("ImagePrompt"),
      [negative_prompt |-> <<"b","l","u","r","r","y">>, aspect_ratio |-> <<"1",":","1">>]   \* "blurry" "1:1"
          @@ ImageRequired @@ OptionalNone("ImagePrompt"),
      ImageFull,
      \* whitespace of the minimum accepted lengths (5 and 10)
      [subject |-> <<" "," "," "," "," ">>, scene_description |-> <<" "," "," "," "," "," "," "," "," "," ">>]   \* "     " "          "
          @@ OptionalNone("ImagePrompt") }

VideoCalls ==
    { VideoRequired,
      VideoDefaultsExplicit @@ VideoRequired,
      \* action="runs" is shorter than the declared min_length of 5
      VideoDefaultsExplicit @@ [action |-> <<"r","u","n","s">>] @@ VideoRequired,   \* "runs"
      VideoFull,
      \* whitespace of the minimum accepted lengths (3, 5, 5, 5)
      [subject |-> <<" "," "," ">>, context |-> <<" "," "," "," "," ">>, action |-> <<" "," "," "," "," ">>, style |-> <<" "," "," "," "," ">>]   \* "   " "     " "     " "     "
          @@ OptionalNone("VideoPrompt") }

ConstructorCalls ==
       {[cls |-> "ImagePrompt", kwargs |-> k] : k \in ImageCalls}
  \cup {[cls |-> "VideoPrompt", kwargs |-> k] : k \in VideoCalls}

\* <<field, value>> pairs assigned to an ImagePrompt
ImageAssignments ==
    { <<"subject", <<" "," "," "," "," ">>>>, <<"subject", <<"c","a","t">>>>,   \* "     " "cat"
      <<"scene_description", <<" "," "," "," "," "," "," "," "," "," ">>>>,   \* "          "
      <<"photography_type", None>>, <<"photography_type", <<"s","t","r","e","e","t">>>>,   \* "street"
      <<"lens_type", None>>, <<"lens_type", <<"w","i","d","e","_","a","n","g","l","e">>>>,   \* "wide_angle"
      <<"focal_length", None>>, <<"focal_length", <<"3","5","m","m">>>>, <<"focal_length", <<" ">>>>,   \* "35mm"
      <<"focal_length", <<"b","e","t","w","e","e","n"," ","3","5","m","m"," ","a","n","d"," ","5","0","m","m">>>>,   \* "between 35mm and 50mm"
      <<"lighting_type", None>>, <<"lighting_type", <<"g","o","l","d","e","n","_","h","o","u","r">>>>,   \* "golden_hour"
      <<"lighting_description", None>>, <<"lighting_description", <<"s","o","f","t"," ","w","i","n","d","o","w"," ","l","i","g","h","t">>>>,   \* "soft window light"
      <<"lighting_description", <<" ">>>>, <<"lighting_description", <<>>>>,
      <<"color_palette", <<"w","a","r","m"," ","e","a","r","t","h"," ","t","o","n","e","s">>>>, <<"color_palette", <<>>>>,   \* "warm earth tones"
      <<"shot_type", None>>, <<"shot_type", <<"m","e","d","i","u","m","_","c","l","o","s","e","_","u","p">>>>, <<"shot_type", <<"b","i","r","d","_","e","y","e">>>>,   \* "medium_close_up" "bird_eye"
      <<"composition_technique", <<"r","u","l","e"," ","o","f"," ","t","h","i","r","d","s">>>>, <<"composition_technique", <<"\t">>>>,   \* "rule of thirds" "\t"
      <<"artistic_style", <<"m","i","n","i","m","a","l","i","s","t">>>>, <<"artistic_style", <<" "," ">>>>,   \* "minimalist" "  "
      <<"mood_and_emotion", <<" ","s","e","r","e","n","e"," ">>>>,   \* " serene "
      <<"aspect_ratio", None>>, <<"aspect_ratio", <<"1","6",":","9">>>>, <<"aspect_ratio", <<"1",":","1">>>>,   \* "16:9" "1:1"
      <<"image_quality", None>>, <<"image_quality", <<"s","t","a","n","d","a","r","d">>>>,   \* "standard"
      <<"image_quality", <<"h","i","g","h">>>>, <<"image_quality", <<"a","r","t","i","s","t","i","c">>>>,   \* "high" "artistic"
      <<"camera_settings", None>>, <<"camera_settings", <<"f","/","8"," ","s","h","a","r","p"," ","f","o","c","u","s">>>>,   \* "f/8 sharp focus"
      <<"camera_settings", <<" ">>>>, <<"camera_settings", <<" ","f","/","8"," ">>>>,   \* " f/8 "
      <<"negative_prompt", None>>, <<"negative_prompt", <<>>>>,
      <<"negative_prompt", <<"b","l","u","r","r","y">>>>, <<"negative_prompt", <<" ">>>>,   \* "blurry"
      <<"style_reference", None>>, <<"style_reference", <<"A","n","s","e","l"," ","A","d","a","m","s">>>>,   \* "Ansel Adams"
      <<"style_reference", <<" ">>>> }

\* <<field, value>> pairs assigned to a VideoPrompt
VideoAssignments ==
    { <<"subject", <<" "," "," ">>>>, <<"subject", <<"a","b">>>>,   \* "   " "ab"
      <<"context", <<" "," "," "," "," ">>>>,   \* "     "
      <<"action", <<" "," "," "," "," ">>>>, <<"action", <<"r","u","n","s">>>>,   \* "     " "runs"
      <<"style", <<" "," "," "," "," ">>>>,   \* "     "
      <<"camera_movement", None>>, <<"camera_movement", <<"s","t","a","t","i","c">>>>,   \* "static"
      <<"camera_movement", <<"t","r","a","c","k","i","n","g">>>>,   \* "tracking"
      <<"camera_description", None>>, <<"camera_description", <<"s","l","o","w"," ","p","u","s","h"," ","i","n">>>>,   \* "slow push in"
      <<"camera_description", <<" ">>>>,
      <<"shot_type", None>>, <<"shot_type", <<"w","i","d","e","_","s","h","o","t">>>>,   \* "wide_shot"
      <<"composition", <<"r","u","l","e"," ","o","f"," ","t","h","i","r","d","s">>>>, <<"composition", <<" ">>>>,   \* "rule of thirds"
      <<"lighting", None>>, <<"lighting", <<"s","o","f","t"," ","g","o","l","d","e","n"," ","l","i","g","h","t">>>>, <<"lighting", <<" ">>>>,   \* "soft golden light"
      <<"ambiance", None>>, <<"ambiance", <<"m","i","s","t","y"," ","d","a","w","n"," ","a","i","r">>>>, <<"ambiance", <<" ">>>>,   \* "misty dawn air"
      <<"aspect_ratio", None>>, <<"aspect_ratio", <<"1","6",":","9">>>>, <<"aspect_ratio", <<"9",":","1","6">>>>,   \* "16:9" "9:16"
      <<"duration_preference", None>>, <<"duration_preference", <<"s","h","o","r","t">>>>,   \* "short"
      <<"duration_preference", <<"m","e","d","i","u","m">>>>,   \* "medium"
      <<"motion_intensity", None>>, <<"motion_intensity", <<"s","u","b","t","l","e">>>>,   \* "subtle"
      <<"motion_intensity", <<"m","o","d","e","r","a","t","e">>>>,   \* "moderate"
      <<"negative_prompt", None>>, <<"negative_prompt", <<>>>>,
      <<"negative_prompt", <<"c","a","m","e","r","a"," ","s","h","a","k","e">>>>, <<"negative_prompt", <<" ">>>>,   \* "camera shake"
      <<"reference_style", None>>, <<"reference_style", <<"K","u","b","r","i","c","k"," ","f","r","a","m","i","n","g">>>>,   \* "Kubrick framing"
      <<"reference_style", <<" ">>>>,
      <<"transition_type", None>>, <<"transition_type", <<"f","a","d","e"," ","i","n"," ","f","r","o","m"," ","b","l","a","c","k">>>>,   \* "fade in from black"
      <<"emotional_tone", None>>, <<"emotional_tone", <<"j","o","y","f","u","l">>>>,   \* "joyful"
      <<"emotional_tone", <<" ">>>> }

\* The assignments offered to an instance of class cls.
Assignments(cls) ==
    IF cls = "ImagePrompt" THEN ImageAssignments
    ELSE IF cls = "VideoPrompt" THEN VideoAssignments
    ELSE {}

-----------------------------------------------------------------------------
(* The state machine: construct an instance, assign attributes, flatten    *)

NoPrompt == [cls |-> "none"]

Init ==
    /\ args \in ConstructorCalls
    /\ prompt = NoPrompt
    /\ pc = "new"
    /\ out = None
    /\ nassign = 0
    /\ Idle

\* ImagePrompt(**kwargs) / VideoPrompt(**kwargs)
Construct ==
    /\ pc = "new"
    /\ IF InitValid(args.cls, args.kwargs)
       THEN prompt' = NewModel(args.cls, args.kwargs) /\ pc' = "built"
       ELSE prompt' = prompt /\ pc' = "ValidationError"
    /\ UNCHANGED <<args, out, nassign>>
    /\ UNCHANGED world

\* Faulty variant: the assigned value is stored without validation.
Assign_Unvalidated(f, v) ==
    /\ pc = "built"
    /\ nassign < MaxAssign
    /\ f \in DOMAIN Schema(prompt.cls)
    /\ nassign' = nassign + 1
    /\ prompt' = [prompt EXCEPT ![f] = v]
    /\ UNCHANGED <<args, pc, out>>
    /\ UNCHANGED world

\* prompt.f = v under validate_assignment = True: an invalid value raises
\* ValidationError and the instance keeps its old value.
Assign(f, v) ==
    /\ pc = "built"
    /\ nassign < MaxAssign
    /\ f \in DOMAIN Schema(prompt.cls)
    /\ nassign' = nassign + 1
    /\ prompt' = IF FieldValid(Schema(prompt.cls)[f], v)
                 THEN [prompt EXCEPT ![f] = v]
                 ELSE prompt
    /\ UNCHANGED <<args, pc, out>>
    /\ UNCHANGED world

\* out = reponse_to_string(prompt)
Flatten ==
    /\ pc = "built"
    /\ out' = reponse_to_string(prompt)
    /\ pc' = "done"
    /\ UNCHANGED <<args, prompt, nassign>>
    /\ UNCHANGED world

Next ==
    \/ Construct
    \/ \E a \in Assignments(prompt.cls) : Assign(a[1], a[2])
    \/ Flatten

Spec == Init /\ [][Next]_vars

-----------------------------------------------------------------------------
(* Properties of the flattener's output                                    *)

StartsWith(s, pre) == Len(pre) <= Len(s) /\ SubSeq(s, 1, Len(pre)) = pre

EndsWith(s, suf) ==
    Len(suf) <= Len(s) /\ SubSeq(s, Len(s) - Len(suf) + 1, Len(s)) = suf

\* The least index >= from at which sub occurs in s, or 0.
FindFrom(s, sub, from) ==
    LET hits == {i \in from..(Len(s) - Len(sub) + 1) : SubSeq(s, i, i + Len(sub) - 1) = sub}
    IN  IF hits = {} THEN 0 ELSE CHOOSE i \in hits : \A j \in hits : i <= j

Contains(s, sub) == FindFrom(s, sub, 1) > 0

\* The texts of items occur in s one after another, without overlap.
RECURSIVE OccursInOrder(_, _, _)
OccursInOrder(items, s, from) ==
    IF items = <<>> THEN TRUE
    ELSE LET i == FindFrom(s, items[1], from)
         IN  i > 0 /\ OccursInOrder(Tail(items), s, i + Len(items[1]))

NonEmpty(x) == x # <<>>

\* The trimmed text of a field value, empty when the field is not populated.
Item(v) == IF Truthy(v) THEN strip(v) ELSE <<>>

\* The trimmed text of a templated field, empty when cond does not hold.
Templated(cond, text) == IF cond THEN strip(text) ELSE <<>>

Done == pc = "done"
IsImage == prompt.cls = "ImagePrompt"
IsVideo == prompt.cls = "VideoPrompt"

RequiredFields(cls) == {f \in DOMAIN Schema(cls) : Schema(cls)[f].required}
OptionalFields(cls) == {f \in DOMAIN Schema(cls) : ~Schema(cls)[f].required}

\* The Image fragments, in the order the specification lists them.
ImageOrder(p) ==
    << Item(p.subject),
       Item(p.scene_description),
       Templated(Truthy(p.photography_type), p.photography_type \o <<" ","p","h","o","t","o","g","r","a","p","h","y">>),   \* " photography"
       Item(p.artistic_style),
       Item(p.lens_type), Item(p.focal_length), Item(p.camera_settings),
       Item(p.lighting_type), Item(p.lighting_description),
       Templated(Truthy(p.shot_type), replace(p.shot_type, "_", " ")),
       Item(p.composition_technique),
       Item(p.color_palette),
       Item(p.mood_and_emotion),
       Templated(Truthy(p.image_quality) /\ p.image_quality # <<"s","t","a","n","d","a","r","d">>,   \* "standard"
                 p.image_quality \o <<" ","q","u","a","l","i","t","y">>),   \* " quality"
       Templated(Truthy(p.style_reference), <<"i","n"," ","t","h","e"," ","s","t","y","l","e"," ","o","f"," ">> \o p.style_reference) >>   \* "in the style of "

\* The Video fragments, in the order the specification lists them.
VideoOrder(p) ==
    << Item(p.subject),
       Item(p.action),
       Item(p.context),
       Templated(Truthy(p.camera_movement) /\ p.camera_movement # <<"s","t","a","t","i","c">>,   \* "static"
                 p.camera_movement \o <<" ","c","a","m","e","r","a"," ","m","o","v","e","m","e","n","t">>),   \* " camera movement"
       Item(p.camera_description),
       Templated(Truthy(p.shot_type), replace(p.shot_type, "_", " ")),
       Item(p.composition),
       Item(p.lighting), Item(p.ambiance),
       Item(p.style),
       Templated(Truthy(p.emotional_tone), p.emotional_tone \o <<" ","t","o","n","e">>),   \* " tone"
       Templated(Truthy(p.motion_intensity) /\ p.motion_intensity # <<"m","o","d","e","r","a","t","e">>,   \* "moderate"
                 p.motion_intensity \o <<" ","m","o","t","i","o","n">>),   \* " motion"
       Templated(Truthy(p.duration_preference) /\ p.duration_preference # <<"m","e","d","i","u","m">>,   \* "medium"
                 p.duration_preference \o <<" ","d","u","r","a","t","i","o","n">>),   \* " duration"
       Templated(Truthy(p.reference_style), <<"i","n"," ","t","h","e"," ","s","t","y","l","e"," ","o","f"," ">> \o p.reference_style) >>   \* "in the style of "

\* C1: for an Image record the fragments of the populated fields appear in
\* the output in the listed order (subject, scene description, photography
\* type, artistic style, camera specs, lighting, composition, color palette,
\* mood, quality, style reference), none before an earlier one.
C1_ImageFragmentOrder ==
    (Done /\ IsImage) =>
        OccursInOrder(SelectSeq(ImageOrder(prompt), NonEmpty), out, 1)

\* C1 witness: a flattened Image record with every listed field populated.
C1_Witness ==
    /\ Done /\ IsImage
    /\ \A i \in 1..Len(ImageOrder(prompt)) : ImageOrder(prompt)[i] # <<>>
    /\ out # <<>>

\* C2: for a Video record the fragments of the populated fields appear in
\* the output in the listed order (subject, action, context, camera block,
\* lighting/ambiance, style, tone, motion, duration, style reference); action
\* precedes context.
C2_VideoFragmentOrder ==
    (Done /\ IsVideo) =>
        OccursInOrder(SelectSeq(VideoOrder(prompt), NonEmpty), out, 1)

\* C2 witness: a flattened Video record with every listed field populated.
C2_Witness ==
    /\ Done /\ IsVideo
    /\ \A i \in 1..Len(VideoOrder(prompt)) : VideoOrder(prompt)[i] # <<>>
    /\ out # <<>>

\* The fields whose values the flattener turns into comma-joined fragments.
FragmentFields(cls) ==
    DOMAIN Schema(cls) \ {"negative_prompt", "aspect_ratio", "transition_type"}

\* C3 (as stated): a visited field whose value is null or whitespace-only
\* contributes no text: the output is the one the record yields with that
\* field null.
C3_BlankFieldContributesNothing ==
    Done =>
        \A f \in FragmentFields(prompt.cls) :
            (prompt[f] = None \/ strip(prompt[f]) = <<>>)
                => out = reponse_to_string([prompt EXCEPT ![f] = None])

ExpectedDirectives(p) ==
       (IF Truthy(p.negative_prompt) THEN <<" ","-","-","n","e","g","a","t","i","v","e"," ">> \o p.negative_prompt ELSE <<>>)   \* " --negative "
    \o (IF Truthy(p.aspect_ratio) /\ p.aspect_ratio # <<"1","6",":","9">>   \* "16:9"
        THEN <<" ","-","-","a","r"," ">> \o p.aspect_ratio ELSE <<>>)   \* " --ar "

\* subject, scene_description, negative_prompt="blurry", aspect_ratio="1:1",
\* every other field null
C6_Record ==
    NewModel("ImagePrompt",
             [negative_prompt |-> <<"b","l","u","r","r","y">>, aspect_ratio |-> <<"1",":","1">>]   \* "blurry" "1:1"
                 @@ ImageRequired @@ OptionalNone("ImagePrompt"))

\* C6: the directives end the output, " --negative" before " --ar", after
\* all comma-joined fragments and not joined to them or to each other by
\* ", "; the example record flattens to
\* "a red bicycle, on a cobblestone street --negative blurry --ar 1:1".
C6_DirectivesTrail ==
    Done =>
        LET dirs == ExpectedDirectives(prompt)
            body == SubSeq(out, 1, Len(out) - Len(dirs))
        IN  /\ EndsWith(out, dirs)
            /\ ~Contains(body, <<" ","-","-">>)   \* " --"
            /\ ~EndsWith(body, <<","," ">>)   \* ", "
            /\ prompt = C6_Record =>
                 out = <<"a"," ","r","e","d"," ","b","i","c","y","c","l","e",","," ","o","n"," ","a"," ","c","o","b","b","l","e","s","t","o","n","e"," ","s","t","r","e","e","t"," ","-","-","n","e","g","a","t","i","v","e"," ","b","l","u","r","r","y"," ","-","-","a","r"," ","1",":","1">>   \* "a red bicycle, on a cobblestone street --negative blurry --ar 1:1"

\* C6 witness: the example record, flattened, with both directives.
C6_Witness ==
    /\ Done /\ prompt = C6_Record
    /\ EndsWith(out, <<" ","-","-","n","e","g","a","t","i","v","e"," ","b","l","u","r","r","y"," ","-","-","a","r"," ","1",":","1">>)   \* " --negative blurry --ar 1:1"

\* C7 (as stated): a schema-valid record with a non-empty required field
\* never flattens to the empty string.
C7_NeverEmpty ==
    (Done /\ \E f \in RequiredFields(prompt.cls) : prompt[f] # <<>>) => out # <<>>

\* subject="a red bicycle", scene_description="on a cobblestone street",
\* every other field null
C8_Record == NewModel("ImagePrompt", ImageRequired @@ OptionalNone("ImagePrompt"))

\* C8: an Image record whose optional fields are all null flattens to its
\* required fragments only; the example record flattens to
\* "a red bicycle, on a cobblestone street".
C8_RequiredOnly ==
    (Done /\ IsImage /\ \A f \in OptionalFields("ImagePrompt") : prompt[f] = None) =>
        /\ out = join(<<","," ">>, SelectSeq(<<Item(prompt.subject), Item(prompt.scene_description)>>,   \* ", "
                                       NonEmpty))
        /\ prompt = C8_Record => out = <<"a"," ","r","e","d"," ","b","i","c","y","c","l","e",","," ","o","n"," ","a"," ","c","o","b","b","l","e","s","t","o","n","e"," ","s","t","r","e","e","t">>   \* "a red bicycle, on a cobblestone street"

\* C8 witness: the example record, flattened.
C8_Witness ==
    Done /\ prompt = C8_Record /\ out = <<"a"," ","r","e","d"," ","b","i","c","y","c","l","e",","," ","o","n"," ","a"," ","c","o","b","b","l","e","s","t","o","n","e"," ","s","t","r","e","e","t">>   \* "a red bicycle, on a cobblestone street"

\* The constructor call of the C9 scenario: action="runs".
C9_Call ==
    [cls |-> "VideoPrompt",
     kwargs |-> VideoDefaultsExplicit @@ [action |-> <<"r","u","n","s">>] @@ VideoRequired]   \* "runs"

\* C9 (as stated): the Video record with subject="a dog", action="runs",
\* context="in a park", style="documentary", motion_intensity="moderate",
\* duration_preference="medium" flattens to "a dog, runs, in a park, documentary".
C9_AsStated ==
    (args = C9_Call /\ pc \in {"done", "ValidationError"}) =>
        out = <<"a"," ","d","o","g",","," ","r","u","n","s",","," ","i","n"," ","a"," ","p","a","r","k",","," ","d","o","c","u","m","e","n","t","a","r","y">>   \* "a dog, runs, in a park, documentary"

\* The same call with an action of the declared minimum length.
C9_AmendedCall ==
    [cls |-> "VideoPrompt", kwargs |-> VideoDefaultsExplicit @@ VideoRequired]

\* C9 (amended): the Video record with subject="a dog", action="runs fast",
\* context="in a park", style="documentary", motion_intensity="moderate",
\* duration_preference="medium" and the remaining fields at their defaults
\* flattens to "a dog, runs fast, in a park, documentary".
C9_DefaultsOmitted ==
    (Done /\ prompt = NewModel("VideoPrompt", C9_AmendedCall.kwargs)) =>
        out = <<"a"," ","d","o","g",","," ","r","u","n","s"," ","f","a","s","t",","," ","i","n"," ","a"," ","p","a","r","k",","," ","d","o","c","u","m","e","n","t","a","r","y">>   \* "a dog, runs fast, in a park, documentary"

\* C9 witness: the amended scenario, constructed from its call and flattened.
C9_Witness ==
    /\ Done /\ args = C9_AmendedCall /\ nassign = 0
    /\ out = <<"a"," ","d","o","g",","," ","r","u","n","s"," ","f","a","s","t",","," ","i","n"," ","a"," ","p","a","r","k",","," ","d","o","c","u","m","e","n","t","a","r","y">>   \* "a dog, runs fast, in a park, documentary"

\* The text a suppress-when-default field contributes when emitted.
DefaultSuppressedText(f, v) ==
    CASE f = "image_quality"       -> v \o <<" ","q","u","a","l","i","t","y">>   \* " quality"
      [] f = "motion_intensity"    -> v \o <<" ","m","o","t","i","o","n">>   \* " motion"
      [] f = "duration_preference" -> v \o <<" ","d","u","r","a","t","i","o","n">>   \* " duration"
      [] f = "aspect_ratio"        -> <<" ","-","-","a","r"," ">> \o v   \* " --ar "

\* C10 (as stated): image_quality, motion_intensity, duration_preference
\* and aspect_ratio are suppressed exactly when the value equals the default
\* the schema declares for the field.
C10_SuppressedIffSchemaDefault ==
    Done =>
        \A f \in DOMAIN Schema(prompt.cls) \cap
                 {"image_quality", "motion_intensity", "duration_preference", "aspect_ratio"} :
            prompt[f] # None =>
                (Contains(out, DefaultSuppressedText(f, prompt[f]))
                    <=> prompt[f] # Schema(prompt.cls)[f].default)

\* C11 (as stated): the fragments are separated by exactly ", " and no
\* field value contributes leading or trailing whitespace, on its own or
\* inside a joined group.  No value explored holds a comma or two adjacent
\* blanks of its own, so ahead of the directives every blank of the output
\* is a single space between two non-blank characters and every comma is
\* followed by a space.
C11_ValuesTrimmed ==
    Done =>
        LET dirs == NegativeDirective(prompt) \o AspectDirective(prompt)
            body == SubSeq(out, 1, Len(out) - Len(dirs))
        IN  \A i \in 1..Len(body) :
                /\ body[i] \in Whitespace =>
                      /\ 1 < i /\ i < Len(body)
                      /\ body[i - 1] \notin Whitespace
                      /\ body[i + 1] \notin Whitespace
                /\ body[i] = "," => (i < Len(body) /\ body[i + 1] = " ")

\* The schema invariant of an instance: every required field is present and
\* within its minimum and maximum length, every enum-typed or literal-typed
\* field holds a member of its choice set or null, every optional string is
\* null or within its maximum length.
SchemaInvariant(p) ==
    \A f \in DOMAIN Schema(p.cls) :
        IF Schema(p.cls)[f].required
        THEN /\ p[f] # None
             /\ Len(p[f]) >= Schema(p.cls)[f].min_length
             /\ Len(p[f]) <= Schema(p.cls)[f].max_length
        ELSE IF Schema(p.cls)[f].type = "choice"
        THEN p[f] = None \/ p[f] \in Schema(p.cls)[f].choices
        ELSE p[f] = None \/ Len(p[f]) <= Schema(p.cls)[f].max_length

\* C22: after construction and after any sequence of field assignments the
\* record satisfies the schema invariant; an assignment changes at most the
\* assigned field, and one that would break the invariant is rejected and
\* leaves the record as it was.
C22_SchemaInvariant ==
    [][ /\ prompt'.cls # "none" => SchemaInvariant(prompt')
        /\ nassign' # nassign =>
               /\ DOMAIN prompt' = DOMAIN prompt
               /\ Cardinality({f \in DOMAIN prompt : prompt'[f] # prompt[f]}) <= 1 ]_vars

\* C22 witness: two assignments were attempted on an ImagePrompt built from
\* its required fields; shot_type took the assigned member and every other
\* field is as constructed.
C22_Witness ==
    /\ pc = "built"
    /\ nassign = 2
    /\ args.cls = "ImagePrompt" /\ args.kwargs = ImageRequired
    /\ prompt = [NewModel("ImagePrompt", ImageRequired) EXCEPT !.shot_type = <<"m","e","d","i","u","m","_","c","l","o","s","e","_","u","p">>]   \* "medium_close_up"

\* The lighting fragment the specification gives for an Image record.
StatedLighting(p) ==
    CASE Truthy(p.lighting_type) /\ Truthy(p.lighting_description)
             -> << p.lighting_type \o <<","," ">> \o p.lighting_description >>   \* ", "
      [] Truthy(p.lighting_type) /\ ~Truthy(p.lighting_description)
             -> << p.lighting_type \o <<" ","l","i","g","h","t","i","n","g">> >>   \* " lighting"
      [] ~Truthy(p.lighting_type) /\ Truthy(p.lighting_description)
             -> << p.lighting_description >>
      [] OTHER -> <<>>

\* C24: the lighting fragment of a flattened Image record is
\* "{lighting_type}, {lighting_description}" when both are set,
\* "{lighting_type} lighting" when only the type is set, the description
\* alone when only the description is set, and absent when neither is set:
\* the output is the one obtained with that single fragment, or none,
\* between the camera fragment and the composition fragment.
C24_OneLightingFragment ==
    (Done /\ IsImage) =>
        /\ Len(StatedLighting(prompt)) <= 1
        /\ out = JoinParts(ImageCore(prompt) \o CameraSpecs(prompt)
                           \o StatedLighting(prompt)
                           \o CompositionParts(prompt) \o ColorAndMood(prompt)
                           \o QualityAndReference(prompt))
                 \o NegativeDirective(prompt) \o AspectDirective(prompt)
        /\ (Truthy(prompt.lighting_type) /\ Truthy(prompt.lighting_description)) =>
               ~Contains(out, prompt.lighting_type \o <<" ","l","i","g","h","t","i","n","g">>)   \* " lighting"

\* C24 witness: an Image record with both lighting fields set was
\* flattened to a text holding the joined pair.
C24_Witness ==
    /\ Done /\ IsImage
    /\ prompt.lighting_type = <<"g","o","l","d","e","n","_","h","o","u","r">>   \* "golden_hour"
    /\ prompt.lighting_description = <<"s","o","f","t"," ","w","i","n","d","o","w"," ","l","i","g","h","t">>   \* "soft window light"
    /\ Contains(out, <<","," ","g","o","l","d","e","n","_","h","o","u","r",","," ","s","o","f","t"," ","w","i","n","d","o","w"," ","l","i","g","h","t">>)   \* ", golden_hour, soft window light"

\* s with every underscore replaced by a space.
Spaced(s) == [i \in 1..Len(s) |-> IF s[i] = "_" THEN " " ELSE s[i]]

\* No field of p other than shot_type holds an underscore.
UnderscoreOnlyInShot(p) ==
    \A f \in DOMAIN Schema(p.cls) \ {"shot_type"} :
        p[f] = None \/ \A i \in 1..Len(p[f]) : p[f][i] # "_"

\* C25: when shot_type is set, Image or Video, the text emitted for it is
\* its value with every underscore replaced by a space, so the shot type
\* brings no underscore into the output.
C25_ShotTypeSpaced ==
    (Done /\ Truthy(prompt.shot_type)) =>
        /\ Contains(out, Spaced(prompt.shot_type))
        /\ UnderscoreOnlyInShot(prompt) => ~Contains(out, <<"_">>)

\* C25 witness: an Image record whose shot_type is "medium_close_up" was
\* flattened and the text holds "medium close up".
C25_Witness ==
    /\ Done /\ IsImage
    /\ prompt.shot_type = <<"m","e","d","i","u","m","_","c","l","o","s","e","_","u","p">>   \* "medium_close_up"
    /\ UnderscoreOnlyInShot(prompt)
    /\ Contains(out, <<"m","e","d","i","u","m"," ","c","l","o","s","e"," ","u","p">>)   \* "medium close up"

\* C27: the output depends on the visited fields only: a Video record
\* flattens to the same text whatever its transition_type, the one schema
\* field the flattener does not visit (an Image record has no such field).
C27_UnvisitedFieldIgnored ==
    (Done /\ IsVideo) =>
        /\ \A v \in {None, <<>>, <<"f","a","d","e"," ","i","n"," ","f","r","o","m"," ","b","l","a","c","k">>, <<"s","e","a","m","l","e","s","s"," ","l","o","o","p">>} :   \* "fade in from black" "seamless loop"
               reponse_to_string([prompt EXCEPT !.transition_type = v]) = out
        /\ Truthy(prompt.transition_type) => ~Contains(out, prompt.transition_type)

\* C27 witness: a Video record with transition_type set was flattened.
C27_Witness ==
    /\ Done /\ IsVideo
    /\ prompt.transition_type = <<"f","a","d","e"," ","i","n"," ","f","r","o","m"," ","b","l","a","c","k">>   \* "fade in from black"
    /\ out # <<>>

-----------------------------------------------------------------------------
(* prompt/creation.py: str and text operations                             *)
(*                                                                         *)
(* A character outside ASCII, and the backquote, is the one-element string *)
(* naming its code point ("U+2022" is the bullet, "U+0060" the backquote). *)
(* A str that may span several lines is modelled as the non-empty sequence *)
(* of its lines, s.split("\n"): "" is << <<>> >>, and joining with "\n" is *)
(* concatenating the sequences.                                            *)

\* A local variable: Body applied to the value of e, computed once.
Bind(e, Body(_)) == CHOOSE y \in {Body(x) : x \in {e}} : TRUE

\* str.lower() and str.upper() on one character
LowerCase ==
    [ A |-> "a", B |-> "b", C |-> "c", D |-> "d", E |-> "e", F |-> "f", G |-> "g",
      H |-> "h", I |-> "i", J |-> "j", K |-> "k", L |-> "l", M |-> "m", N |-> "n",
      O |-> "o", P |-> "p", Q |-> "q", R |-> "r", S |-> "s", T |-> "t", U |-> "u",
      V |-> "v", W |-> "w", X |-> "x", Y |-> "y", Z |-> "z" ]

Lower(c) == IF c \in DOMAIN LowerCase THEN LowerCase[c] ELSE c

Upper(c) ==
    IF \E u \in DOMAIN LowerCase : LowerCase[u] = c
    THEN CHOOSE u \in DOMAIN LowerCase : LowerCase[u] = c
    ELSE c

IsLetter(c) == Lower(c) # c \/ Upper(c) # c

\* str.lower()
lower(s) == [i \in 1..Len(s) |-> Lower(s[i])]

\* str.title(): a letter is upper-cased after a non-letter, lower-cased
\* after a letter.
title(s) ==
    [i \in 1..Len(s) |->
        IF i = 1 \/ ~IsLetter(s[i - 1]) THEN Upper(s[i]) ELSE Lower(s[i])]

\* str.replace(old, new) for a non-empty old of any length
RECURSIVE replace_str(_, _, _)
replace_str(s, old, new) ==
    LET i == FindFrom(s, old, 1)
    IN  IF i = 0 THEN s
        ELSE SubSeq(s, 1, i - 1) \o new
             \o replace_str(SubSeq(s, i + Len(old), Len(s)), old, new)

\* str(n) for a natural number
RECURSIVE str_int(_)
str_int(n) ==
    LET digit == <<"0", "1", "2", "3", "4", "5", "6", "7", "8", "9">>
    IN  IF n < 10 THEN << digit[n + 1] >>
        ELSE str_int(n \div 10) \o << digit[(n % 10) + 1] >>

\* a + b for two texts: the last line of a runs on into the first of b
TextCat(a, b) ==
    Bind(<<a, b>>, LAMBDA ab :
        SubSeq(ab[1], 1, Len(ab[1]) - 1)
            \o << ab[1][Len(ab[1])] \o ab[2][1] >> \o Tail(ab[2]))

\* The pieces from the i-th on, concatenated
RECURSIVE FStringFrom(_, _)
FStringFrom(pieces, i) ==
    IF i = Len(pieces) THEN pieces[i]
    ELSE TextCat(pieces[i], FStringFrom(pieces, i + 1))

\* An f-string: its literal and interpolated pieces, concatenated
FString(pieces) ==
    Bind(pieces, LAMBDA ps : IF ps = <<>> THEN << <<>> >> ELSE FStringFrom(ps, 1))

\* The texts from the i-th on, each on lines of its own
RECURSIVE JoinLinesFrom(_, _)
JoinLinesFrom(texts, i) ==
    IF i = Len(texts) THEN texts[i]
    ELSE texts[i] \o JoinLinesFrom(texts, i + 1)

\* "\n".join(texts)
JoinLines(texts) ==
    Bind(texts, LAMBDA ts : IF ts = <<>> THEN << <<>> >> ELSE JoinLinesFrom(ts, 1))

-----------------------------------------------------------------------------
(* prompt/creation.py: extract_examples_from_description                   *)

NoMatch == [start |-> 0]

\* The least index >= from of s that satisfies Test, or Len(s) + 1.
FirstIndex(s, from, Test(_)) ==
    LET hits == {i \in from..Len(s) : Test(s[i])}
    IN  IF hits = {} THEN Len(s) + 1 ELSE CHOOSE i \in hits : \A j \in hits : i <= j

\* examples_pattern = r"Examples?:\s*(.+?)(?:\"|$)" with IGNORECASE | DOTALL,
\* matched at index i of s: the word, an optional s, the colon, the blanks
\* after it, then a group of at least one character that runs up to the
\* first double quote or the end of s (or the newline that ends s).  When
\* only blanks follow the colon the group is the last of them.
\* start..end is the span matched, gstart..gend the group.
MatchExamplesAt(s, i) ==
    LET n      == Len(s)
        afterw == i + 7
        colon  == IF afterw <= n /\ Lower(s[afterw]) = "s" THEN afterw + 1 ELSE afterw
        NotBlank(c) == c \notin Whitespace
        w      == FirstIndex(s, colon + 1, NotBlank)
        gstart == IF w <= n THEN w ELSE n
        AtEnd(k) == k = n + 1 \/ (k = n /\ s[n] = "\n")
        stops  == {e \in gstart..n : AtEnd(e + 1) \/ s[e + 1] = "\""}
        gend   == CHOOSE e \in stops : \A f \in stops : e <= f
    IN  IF /\ afterw - 1 <= n
           /\ lower(SubSeq(s, i, afterw - 1)) = <<"e","x","a","m","p","l","e">>   \* "example"
           /\ colon <= n /\ s[colon] = ":"
           /\ colon < n
        THEN [ start |-> i, gstart |-> gstart, gend |-> gend,
               end |-> IF AtEnd(gend + 1) THEN gend ELSE gend + 1 ]
        ELSE NoMatch

\* re.search(examples_pattern, s[from:]): the leftmost match at or after from
SearchExamples(s, from) ==
    LET hits == {i \in from..Len(s) : MatchExamplesAt(s, i) # NoMatch}
    IN  IF hits = {} THEN NoMatch
        ELSE MatchExamplesAt(s, CHOOSE i \in hits : \A j \in hits : i <= j)

\* re.sub(examples_pattern, "", s): every match removed, left to right
RECURSIVE SubExamples(_, _)
SubExamples(s, from) ==
    Bind(SearchExamples(s, from), LAMBDA m :
        IF m = NoMatch THEN SubSeq(s, from, Len(s))
        ELSE SubSeq(s, from, m.start - 1) \o SubExamples(s, m.end + 1))

\* re.findall(r"'([^']+)'", t): from the next apostrophe to the one after
\* it, when at least one character lies between them
RECURSIVE FindAllQuoted(_, _)
FindAllQuoted(t, from) ==
    LET IsQuote(c) == c = "'"
    IN  Bind(FirstIndex(t, from, IsQuote), LAMBDA q :
        Bind(FirstIndex(t, q + 1, IsQuote), LAMBDA r :
            IF q > Len(t) \/ r > Len(t) THEN <<>>
            ELSE IF r = q + 1 THEN FindAllQuoted(t, r)
            ELSE << SubSeq(t, q + 1, r - 1) >> \o FindAllQuoted(t, r + 1)))

\* re.sub(r"[,\s]+$", "", s): the trailing commas and blanks removed
StripTrailing(s) ==
    LET keep == {i \in 1..Len(s) : s[i] \notin Whitespace \cup {","}}
    IN  IF keep = {} THEN <<>>
        ELSE SubSeq(s, 1, CHOOSE i \in keep : \A j \in keep : i >= j)

\* def extract_examples_from_description(description): lines 43-71
\* returns (clean_description, examples)
extract_examples_from_description(description_arg) ==
    Bind(description_arg, LAMBDA description :
    Bind(SearchExamples(description, 1), LAMBDA match :
        IF match # NoMatch
        THEN [ clean_description |->
                   Bind(SubExamples(description, 1), LAMBDA removed :
                       Bind(strip(removed), StripTrailing)),
               examples |->
                   Bind(SubSeq(description, match.gstart, match.gend), LAMBDA examples_text :
                       FindAllQuoted(examples_text, 1)) ]
        ELSE [ clean_description |-> description, examples |-> <<>> ]))

-----------------------------------------------------------------------------
(* schema.py: the enum classes as inspect.getsource and iteration see them  *)

\* class AspectRatio(str, Enum): schema.py lines 11-19.  members: the values in
\* iteration order; source: inspect.getsource(AspectRatio).split("\n").
AspectRatioClass ==
    [ name    |-> <<"A","s","p","e","c","t","R","a","t","i","o">>,   \* "AspectRatio"
      members |-> << <<"1",":","1">>, <<"1","6",":","9">>, <<"9",":","1","6">>, <<"4",":","3">>, <<"2","1",":","9">>, <<"3",":","2">> >>,   \* "1:1" "16:9" "9:16" "4:3" "21:9" "3:2"
      source  |->
        << <<"c","l","a","s","s"," ","A","s","p","e","c","t","R","a","t","i","o","(","s","t","r",","," ","E","n","u","m",")",":">>,   \* "class AspectRatio(str, Enum):"
           <<" "," "," "," ","\"","\"","\"","S","u","p","p","o","r","t","e","d"," ","a","s","p","e","c","t"," ","r","a","t","i","o","s"," ","f","o","r"," ","m","e","d","i","a"," ","g","e","n","e","r","a","t","i","o","n",".","\"","\"","\"">>,   \* "    \"\"\"Supported aspect ratios for media generation.\"\"\""
           <<>>,
           <<" "," "," "," ","S","Q","U","A","R","E"," ","="," ","\"","1",":","1","\""," "," ","#"," ","P","e","r","f","e","c","t"," ","f","o","r"," ","s","o","c","i","a","l"," ","m","e","d","i","a",","," ","p","r","o","f","i","l","e"," ","p","i","c","t","u","r","e","s",","," ","p","r","o","d","u","c","t"," ","s","h","o","t","s">>,   \* "    SQUARE = \"1:1\"  # Perfect for social media, profile pictures, product shots"
           <<" "," "," "," ","W","I","D","E","S","C","R","E","E","N"," ","="," ","\"","1","6",":","9","\""," "," ","#"," ","L","a","n","d","s","c","a","p","e",","," ","i","d","e","a","l"," ","f","o","r"," ","T","V","s",","," ","m","o","n","i","t","o","r","s",","," ","s","c","e","n","i","c"," ","l","a","n","d","s","c","a","p","e","s">>,   \* "    WIDESCREEN = \"16:9\"  # Landscape, ideal for TVs, monitors, scenic landscapes"
           <<" "," "," "," ","P","O","R","T","R","A","I","T"," ","="," ","\"","9",":","1","6","\""," "," ","#"," ","P","o","r","t","r","a","i","t",","," ","i","d","e","a","l"," ","f","o","r"," ","m","o","b","i","l","e",","," ","s","o","c","i","a","l"," ","m","e","d","i","a",","," ","t","a","l","l"," ","o","b","j","e","c","t","s">>,   \* "    PORTRAIT = \"9:16\"  # Portrait, ideal for mobile, social media, tall objects"
           <<" "," "," "," ","C","L","A","S","S","I","C"," ","="," ","\"","4",":","3","\""," "," ","#"," ","T","r","a","d","i","t","i","o","n","a","l"," ","p","h","o","t","o","g","r","a","p","h","y"," ","r","a","t","i","o">>,   \* "    CLASSIC = \"4:3\"  # Traditional photography ratio"
           <<" "," "," "," ","U","L","T","R","A","W","I","D","E"," ","="," ","\"","2","1",":","9","\""," "," ","#"," ","C","i","n","e","m","a","t","i","c"," ","u","l","t","r","a","w","i","d","e"," ","f","o","r","m","a","t">>,   \* "    ULTRAWIDE = \"21:9\"  # Cinematic ultrawide format"
           <<" "," "," "," ","G","O","L","D","E","N"," ","="," ","\"","3",":","2","\""," "," ","#"," ","G","o","l","d","e","n"," ","r","a","t","i","o",","," ","n","a","t","u","r","a","l"," ","p","h","o","t","o","g","r","a","p","h","y">>,   \* "    GOLDEN = \"3:2\"  # Golden ratio, natural photography"
           <<>> >> ]

\* class ShotType(str, Enum): schema.py lines 22-35.  members: the values in
\* iteration order; source: inspect.getsource(ShotType).split("\n").
ShotTypeClass ==
    [ name    |-> <<"S","h","o","t","T","y","p","e">>,   \* "ShotType"
      members |-> << <<"e","x","t","r","e","m","e","_","w","i","d","e","_","s","h","o","t">>, <<"w","i","d","e","_","s","h","o","t">>, <<"m","e","d","i","u","m","_","w","i","d","e","_","s","h","o","t">>, <<"m","e","d","i","u","m","_","s","h","o","t">>, <<"m","e","d","i","u","m","_","c","l","o","s","e","_","u","p">>, <<"c","l","o","s","e","_","u","p">>, <<"e","x","t","r","e","m","e","_","c","l","o","s","e","_","u","p">>, <<"b","i","r","d","_","e","y","e","_","v","i","e","w">>, <<"l","o","w","_","a","n","g","l","e">>, <<"h","i","g","h","_","a","n","g","l","e">>, <<"e","y","e","_","l","e","v","e","l">> >>,   \* "extreme_wide_shot" "wide_shot" "medium_wide_shot" "medium_shot" "medium_close_up" "close_up" "extreme_close_up" "bird_eye_view" "low_angle" "high_angle" "eye_level"
      source  |->
        << <<"c","l","a","s","s"," ","S","h","o","t","T","y","p","e","(","s","t","r",","," ","E","n","u","m",")",":">>,   \* "class ShotType(str, Enum):"
           <<" "," "," "," ","\"","\"","\"","C","o","m","m","o","n"," ","s","h","o","t"," ","c","o","m","p","o","s","i","t","i","o","n","s"," ","a","n","d"," ","f","r","a","m","i","n","g"," ","t","y","p","e","s",".","\"","\"","\"">>,   \* "    \"\"\"Common shot compositions and framing types.\"\"\""
           <<>>,
           <<" "," "," "," ","E","X","T","R","E","M","E","_","W","I","D","E"," ","="," ","\"","e","x","t","r","e","m","e","_","w","i","d","e","_","s","h","o","t","\""," "," ","#"," ","S","h","o","w","s"," ","e","n","t","i","r","e"," ","e","n","v","i","r","o","n","m","e","n","t",","," ","s","u","b","j","e","c","t","s"," ","a","r","e"," ","s","m","a","l","l">>,   \* "    EXTREME_WIDE = \"extreme_wide_shot\"  # Shows entire environment, subjects are small"
           <<" "," "," "," ","W","I","D","E"," ","="," ","\"","w","i","d","e","_","s","h","o","t","\""," "," ","#"," ","S","h","o","w","s"," ","f","u","l","l"," ","s","u","b","j","e","c","t"," ","a","n","d"," ","s","u","r","r","o","u","n","d","i","n","g","s">>,   \* "    WIDE = \"wide_shot\"  # Shows full subject and surroundings"
           <<" "," "," "," ","M","E","D","I","U","M","_","W","I","D","E"," ","="," ","\"","m","e","d","i","u","m","_","w","i","d","e","_","s","h","o","t","\""," "," ","#"," ","S","h","o","w","s"," ","s","u","b","j","e","c","t"," ","f","r","o","m"," ","k","n","e","e","s"," ","u","p">>,   \* "    MEDIUM_WIDE = \"medium_wide_shot\"  # Shows subject from knees up"
           <<" "," "," "," ","M","E","D","I","U","M"," ","="," ","\"","m","e","d","i","u","m","_","s","h","o","t","\""," "," ","#"," ","S","h","o","w","s"," ","s","u","b","j","e","c","t"," ","f","r","o","m"," ","w","a","i","s","t"," ","u","p">>,   \* "    MEDIUM = \"medium_shot\"  # Shows subject from waist up"
           <<" "," "," "," ","M","E","D","I","U","M","_","C","L","O","S","E"," ","="," ","\"","m","e","d","i","u","m","_","c","l","o","s","e","_","u","p","\""," "," ","#"," ","S","h","o","w","s"," ","s","u","b","j","e","c","t"," ","f","r","o","m"," ","c","h","e","s","t"," ","u","p">>,   \* "    MEDIUM_CLOSE = \"medium_close_up\"  # Shows subject from chest up"
           <<" "," "," "," ","C","L","O","S","E","_","U","P"," ","="," ","\"","c","l","o","s","e","_","u","p","\""," "," ","#"," ","S","h","o","w","s"," ","s","u","b","j","e","c","t","'","s"," ","f","a","c","e"," ","a","n","d"," ","s","h","o","u","l","d","e","r","s">>,   \* "    CLOSE_UP = \"close_up\"  # Shows subject's face and shoulders"
           <<" "," "," "," ","E","X","T","R","E","M","E","_","C","L","O","S","E","_","U","P"," ","="," ","\"","e","x","t","r","e","m","e","_","c","l","o","s","e","_","u","p","\""," "," ","#"," ","S","h","o","w","s"," ","s","p","e","c","i","f","i","c"," ","d","e","t","a","i","l","s",","," ","e","y","e","s",","," ","h","a","n","d","s">>,   \* "    EXTREME_CLOSE_UP = \"extreme_close_up\"  # Shows specific details, eyes, hands"
           <<" "," "," "," ","B","I","R","D","_","E","Y","E"," ","="," ","\"","b","i","r","d","_","e","y","e","_","v","i","e","w","\""," "," ","#"," ","H","i","g","h"," ","o","v","e","r","h","e","a","d"," ","p","e","r","s","p","e","c","t","i","v","e">>,   \* "    BIRD_EYE = \"bird_eye_view\"  # High overhead perspective"
           <<" "," "," "," ","L","O","W","_","A","N","G","L","E"," ","="," ","\"","l","o","w","_","a","n","g","l","e","\""," "," ","#"," ","C","a","m","e","r","a"," ","b","e","l","o","w"," ","s","u","b","j","e","c","t",","," ","l","o","o","k","i","n","g"," ","u","p">>,   \* "    LOW_ANGLE = \"low_angle\"  # Camera below subject, looking up"
           <<" "," "," "," ","H","I","G","H","_","A","N","G","L","E"," ","="," ","\"","h","i","g","h","_","a","n","g","l","e","\""," "," ","#"," ","C","a","m","e","r","a"," ","a","b","o","v","e"," ","s","u","b","j","e","c","t",","," ","l","o","o","k","i","n","g"," ","d","o","w","n">>,   \* "    HIGH_ANGLE = \"high_angle\"  # Camera above subject, looking down"
           <<" "," "," "," ","E","Y","E","_","L","E","V","E","L"," ","="," ","\"","e","y","e","_","l","e","v","e","l","\""," "," ","#"," ","C","a","m","e","r","a"," ","a","t"," ","s","u","b","j","e","c","t","'","s"," ","e","y","e"," ","l","e","v","e","l">>,   \* "    EYE_LEVEL = \"eye_level\"  # Camera at subject's eye level"
           <<>> >> ]

\* class CameraMovement(str, Enum): schema.py lines 43-55.  members: the values in
\* iteration order; source: inspect.getsource(CameraMovement).split("\n").
CameraMovementClass ==
    [ name    |-> <<"C","a","m","e","r","a","M","o","v","e","m","e","n","t">>,   \* "CameraMovement"
      members |-> << <<"s","t","a","t","i","c">>, <<"p","a","n">>, <<"t","i","l","t">>, <<"z","o","o","m","_","i","n">>, <<"z","o","o","m","_","o","u","t">>, <<"d","o","l","l","y">>, <<"t","r","a","c","k","i","n","g">>, <<"h","a","n","d","h","e","l","d">>, <<"d","r","o","n","e">>, <<"c","r","a","n","e">> >>,   \* "static" "pan" "tilt" "zoom_in" "zoom_out" "dolly" "tracking" "handheld" "drone" "crane"
      source  |->
        << <<"c","l","a","s","s"," ","C","a","m","e","r","a","M","o","v","e","m","e","n","t","(","s","t","r",","," ","E","n","u","m",")",":">>,   \* "class CameraMovement(str, Enum):"
           <<" "," "," "," ","\"","\"","\"","C","o","m","m","o","n"," ","c","a","m","e","r","a"," ","m","o","v","e","m","e","n","t"," ","t","y","p","e","s"," ","f","o","r"," ","v","i","d","e","o",".","\"","\"","\"">>,   \* "    \"\"\"Common camera movement types for video.\"\"\""
           <<>>,
           <<" "," "," "," ","S","T","A","T","I","C"," ","="," ","\"","s","t","a","t","i","c","\""," "," ","#"," ","C","a","m","e","r","a"," ","r","e","m","a","i","n","s"," ","s","t","a","t","i","o","n","a","r","y">>,   \* "    STATIC = \"static\"  # Camera remains stationary"
           <<" "," "," "," ","P","A","N"," ","="," ","\"","p","a","n","\""," "," ","#"," ","H","o","r","i","z","o","n","t","a","l"," ","c","a","m","e","r","a"," ","r","o","t","a","t","i","o","n">>,   \* "    PAN = \"pan\"  # Horizontal camera rotation"
           <<" "," "," "," ","T","I","L","T"," ","="," ","\"","t","i","l","t","\""," "," ","#"," ","V","e","r","t","i","c","a","l"," ","c","a","m","e","r","a"," ","r","o","t","a","t","i","o","n">>,   \* "    TILT = \"tilt\"  # Vertical camera rotation"
           <<" "," "," "," ","Z","O","O","M","_","I","N"," ","="," ","\"","z","o","o","m","_","i","n","\""," "," ","#"," ","L","e","n","s"," ","z","o","o","m","s"," ","c","l","o","s","e","r"," ","t","o"," ","s","u","b","j","e","c","t">>,   \* "    ZOOM_IN = \"zoom_in\"  # Lens zooms closer to subject"
           <<" "," "," "," ","Z","O","O","M","_","O","U","T"," ","="," ","\"","z","o","o","m","_","o","u","t","\""," "," ","#"," ","L","e","n","s"," ","z","o","o","m","s"," ","a","w","a","y"," ","f","r","o","m"," ","s","u","b","j","e","c","t">>,   \* "    ZOOM_OUT = \"zoom_out\"  # Lens zooms away from subject"
           <<" "," "," "," ","D","O","L","L","Y"," ","="," ","\"","d","o","l","l","y","\""," "," ","#"," ","C","a","m","e","r","a"," ","m","o","v","e","s"," ","p","h","y","s","i","c","a","l","l","y"," ","c","l","o","s","e","r","/","f","a","r","t","h","e","r">>,   \* "    DOLLY = \"dolly\"  # Camera moves physically closer/farther"
           <<" "," "," "," ","T","R","A","C","K","I","N","G"," ","="," ","\"","t","r","a","c","k","i","n","g","\""," "," ","#"," ","C","a","m","e","r","a"," ","f","o","l","l","o","w","s"," ","s","u","b","j","e","c","t"," ","m","o","v","e","m","e","n","t">>,   \* "    TRACKING = \"tracking\"  # Camera follows subject movement"
           <<" "," "," "," ","H","A","N","D","H","E","L","D"," ","="," ","\"","h","a","n","d","h","e","l","d","\""," "," ","#"," ","N","a","t","u","r","a","l"," ","c","a","m","e","r","a"," ","s","h","a","k","e",","," ","d","o","c","u","m","e","n","t","a","r","y"," ","s","t","y","l","e">>,   \* "    HANDHELD = \"handheld\"  # Natural camera shake, documentary style"
           <<" "," "," "," ","D","R","O","N","E"," ","="," ","\"","d","r","o","n","e","\""," "," ","#"," ","A","e","r","i","a","l"," ","p","e","r","s","p","e","c","t","i","v","e"," ","w","i","t","h"," ","s","m","o","o","t","h"," ","m","o","v","e","m","e","n","t">>,   \* "    DRONE = \"drone\"  # Aerial perspective with smooth movement"
           <<" "," "," "," ","C","R","A","N","E"," ","="," ","\"","c","r","a","n","e","\""," "," ","#"," ","H","i","g","h"," ","s","w","e","e","p","i","n","g"," ","m","o","v","e","m","e","n","t","s",","," ","c","i","n","e","m","a","t","i","c">>,   \* "    CRANE = \"crane\"  # High sweeping movements, cinematic"
           <<>> >> ]

\* class PhotographyType(str, Enum): schema.py lines 63-77.  members: the values in
\* iteration order; source: inspect.getsource(PhotographyType).split("\n").
PhotographyTypeClass ==
    [ name    |-> <<"P","h","o","t","o","g","r","a","p","h","y","T","y","p","e">>,   \* "PhotographyType"
      members |-> << <<"p","o","r","t","r","a","i","t">>, <<"l","a","n","d","s","c","a","p","e">>, <<"m","a","c","r","o">>, <<"s","t","r","e","e","t">>, <<"p","r","o","d","u","c","t">>, <<"a","r","c","h","i","t","e","c","t","u","r","a","l">>, <<"w","i","l","d","l","i","f","e">>, <<"f","o","o","d">>, <<"f","a","s","h","i","o","n">>, <<"a","b","s","t","r","a","c","t">>, <<"s","t","u","d","i","o">>, <<"d","o","c","u","m","e","n","t","a","r","y">> >>,   \* "portrait" "landscape" "macro" "street" "product" "architectural" "wildlife" "food" "fashion" "abstract" "studio" "documentary"
      source  |->
        << <<"c","l","a","s","s"," ","P","h","o","t","o","g","r","a","p","h","y","T","y","p","e","(","s","t","r",","," ","E","n","u","m",")",":">>,   \* "class PhotographyType(str, Enum):"
           <<" "," "," "," ","\"","\"","\"","P","h","o","t","o","g","r","a","p","h","y"," ","t","y","p","e","s"," ","b","a","s","e","d"," ","o","n"," ","i","n","d","u","s","t","r","y"," ","s","t","a","n","d","a","r","d","s",".","\"","\"","\"">>,   \* "    \"\"\"Photography types based on industry standards.\"\"\""
           <<>>,
           <<" "," "," "," ","P","O","R","T","R","A","I","T"," ","="," ","\"","p","o","r","t","r","a","i","t","\""," "," ","#"," ","P","e","o","p","l","e",","," ","c","h","a","r","a","c","t","e","r","s",","," ","h","e","a","d","s","h","o","t","s",","," ","p","e","r","s","o","n","a","l","i","t","y">>,   \* "    PORTRAIT = \"portrait\"  # People, characters, headshots, personality"
           <<" "," "," "," ","L","A","N","D","S","C","A","P","E"," ","="," ","\"","l","a","n","d","s","c","a","p","e","\""," "," ","#"," ","N","a","t","u","r","a","l"," ","s","c","e","n","e","r","y",","," ","w","i","d","e"," ","v","i","s","t","a","s",","," ","o","u","t","d","o","o","r","s">>,   \* "    LANDSCAPE = \"landscape\"  # Natural scenery, wide vistas, outdoors"
           <<" "," "," "," ","M","A","C","R","O"," ","="," ","\"","m","a","c","r","o","\""," "," ","#"," ","C","l","o","s","e","-","u","p"," ","d","e","t","a","i","l","s",","," ","s","m","a","l","l"," ","s","u","b","j","e","c","t","s",","," ","t","e","x","t","u","r","e","s">>,   \* "    MACRO = \"macro\"  # Close-up details, small subjects, textures"
           <<" "," "," "," ","S","T","R","E","E","T"," ","="," ","\"","s","t","r","e","e","t","\""," "," ","#"," ","U","r","b","a","n",","," ","c","a","n","d","i","d",","," ","d","o","c","u","m","e","n","t","a","r","y"," ","s","t","y","l","e">>,   \* "    STREET = \"street\"  # Urban, candid, documentary style"
           <<" "," "," "," ","P","R","O","D","U","C","T"," ","="," ","\"","p","r","o","d","u","c","t","\""," "," ","#"," ","C","o","m","m","e","r","c","i","a","l",","," ","c","l","e","a","n"," ","b","a","c","k","g","r","o","u","n","d","s",","," ","a","d","v","e","r","t","i","s","i","n","g">>,   \* "    PRODUCT = \"product\"  # Commercial, clean backgrounds, advertising"
           <<" "," "," "," ","A","R","C","H","I","T","E","C","T","U","R","A","L"," ","="," ","\"","a","r","c","h","i","t","e","c","t","u","r","a","l","\""," "," ","#"," ","B","u","i","l","d","i","n","g","s",","," ","s","t","r","u","c","t","u","r","e","s",","," ","i","n","t","e","r","i","o","r","s",","," ","d","e","s","i","g","n">>,   \* "    ARCHITECTURAL = \"architectural\"  # Buildings, structures, interiors, design"
           <<" "," "," "," ","W","I","L","D","L","I","F","E"," ","="," ","\"","w","i","l","d","l","i","f","e","\""," "," ","#"," ","A","n","i","m","a","l","s"," ","i","n"," ","n","a","t","u","r","a","l"," ","h","a","b","i","t","a","t","s",","," ","n","a","t","u","r","e">>,   \* "    WILDLIFE = \"wildlife\"  # Animals in natural habitats, nature"
           <<" "," "," "," ","F","O","O","D"," ","="," ","\"","f","o","o","d","\""," "," ","#"," ","C","u","l","i","n","a","r","y",","," ","s","t","i","l","l"," ","l","i","f","e",","," ","r","e","s","t","a","u","r","a","n","t"," ","s","t","y","l","e">>,   \* "    FOOD = \"food\"  # Culinary, still life, restaurant style"
           <<" "," "," "," ","F","A","S","H","I","O","N"," ","="," ","\"","f","a","s","h","i","o","n","\""," "," ","#"," ","C","l","o","t","h","i","n","g",","," ","s","t","y","l","e",","," ","m","o","d","e","l","i","n","g",","," ","e","d","i","t","o","r","i","a","l">>,   \* "    FASHION = \"fashion\"  # Clothing, style, modeling, editorial"
           <<" "," "," "," ","A","B","S","T","R","A","C","T"," ","="," ","\"","a","b","s","t","r","a","c","t","\""," "," ","#"," ","A","r","t","i","s","t","i","c",","," ","c","o","n","c","e","p","t","u","a","l",","," ","n","o","n","-","r","e","p","r","e","s","e","n","t","a","t","i","o","n","a","l">>,   \* "    ABSTRACT = \"abstract\"  # Artistic, conceptual, non-representational"
           <<" "," "," "," ","S","T","U","D","I","O"," ","="," ","\"","s","t","u","d","i","o","\""," "," ","#"," ","C","o","n","t","r","o","l","l","e","d"," ","l","i","g","h","t","i","n","g",","," ","p","r","o","f","e","s","s","i","o","n","a","l"," ","s","e","t","u","p">>,   \* "    STUDIO = \"studio\"  # Controlled lighting, professional setup"
           <<" "," "," "," ","D","O","C","U","M","E","N","T","A","R","Y"," ","="," ","\"","d","o","c","u","m","e","n","t","a","r","y","\""," "," ","#"," ","P","h","o","t","o","j","o","u","r","n","a","l","i","s","m",","," ","r","e","a","l","-","l","i","f","e"," ","e","v","e","n","t","s",","," ","s","t","o","r","y","t","e","l","l","i","n","g">>,   \* "    DOCUMENTARY = \"documentary\"  # Photojournalism, real-life events, storytelling"
           <<>> >> ]

\* class LensType(str, Enum): schema.py lines 80-88.  members: the values in
\* iteration order; source: inspect.getsource(LensType).split("\n").
LensTypeClass ==
    [ name    |-> <<"L","e","n","s","T","y","p","e">>,   \* "LensType"
      members |-> << <<"w","i","d","e","_","a","n","g","l","e">>, <<"s","t","a","n","d","a","r","d">>, <<"p","o","r","t","r","a","i","t">>, <<"t","e","l","e","p","h","o","t","o">>, <<"m","a","c","r","o">>, <<"f","i","s","h","e","y","e">> >>,   \* "wide_angle" "standard" "portrait" "telephoto" "macro" "fisheye"
      source  |->
        << <<"c","l","a","s","s"," ","L","e","n","s","T","y","p","e","(","s","t","r",","," ","E","n","u","m",")",":">>,   \* "class LensType(str, Enum):"
           <<" "," "," "," ","\"","\"","\"","C","a","m","e","r","a"," ","l","e","n","s"," ","t","y","p","e","s"," ","f","o","r"," ","s","p","e","c","i","f","i","c"," ","p","h","o","t","o","g","r","a","p","h","y"," ","e","f","f","e","c","t","s",".","\"","\"","\"">>,   \* "    \"\"\"Camera lens types for specific photography effects.\"\"\""
           <<>>,
           <<" "," "," "," ","W","I","D","E","_","A","N","G","L","E"," ","="," ","\"","w","i","d","e","_","a","n","g","l","e","\""," "," ","#"," ","1","0","-","2","4","m","m",","," ","l","a","n","d","s","c","a","p","e","s",","," ","a","r","c","h","i","t","e","c","t","u","r","e",","," ","d","r","a","m","a","t","i","c"," ","p","e","r","s","p","e","c","t","i","v","e">>,   \* "    WIDE_ANGLE = \"wide_angle\"  # 10-24mm, landscapes, architecture, dramatic perspective"
           <<" "," "," "," ","S","T","A","N","D","A","R","D"," ","="," ","\"","s","t","a","n","d","a","r","d","\""," "," ","#"," ","3","5","-","5","0","m","m",","," ","n","a","t","u","r","a","l"," ","p","e","r","s","p","e","c","t","i","v","e",","," ","e","v","e","r","y","d","a","y"," ","p","h","o","t","o","g","r","a","p","h","y">>,   \* "    STANDARD = \"standard\"  # 35-50mm, natural perspective, everyday photography"
           <<" "," "," "," ","P","O","R","T","R","A","I","T","_","L","E","N","S"," ","="," ","\"","p","o","r","t","r","a","i","t","\""," "," ","#"," ","8","5","-","1","3","5","m","m",","," ","p","o","r","t","r","a","i","t","s",","," ","s","h","a","l","l","o","w"," ","D","O","F",","," ","c","o","m","p","r","e","s","s","i","o","n">>,   \* "    PORTRAIT_LENS = \"portrait\"  # 85-135mm, portraits, shallow DOF, compression"
           <<" "," "," "," ","T","E","L","E","P","H","O","T","O"," ","="," ","\"","t","e","l","e","p","h","o","t","o","\""," "," ","#"," ","1","0","0","-","4","0","0","m","m",","," ","s","p","o","r","t","s",","," ","w","i","l","d","l","i","f","e",","," ","d","i","s","t","a","n","t"," ","s","u","b","j","e","c","t","s">>,   \* "    TELEPHOTO = \"telephoto\"  # 100-400mm, sports, wildlife, distant subjects"
           <<" "," "," "," ","M","A","C","R","O","_","L","E","N","S"," ","="," ","\"","m","a","c","r","o","\""," "," ","#"," ","6","0","-","1","0","5","m","m",","," ","c","l","o","s","e","-","u","p"," ","d","e","t","a","i","l","s",","," ","1",":","1"," ","r","e","p","r","o","d","u","c","t","i","o","n">>,   \* "    MACRO_LENS = \"macro\"  # 60-105mm, close-up details, 1:1 reproduction"
           <<" "," "," "," ","F","I","S","H","E","Y","E"," ","="," ","\"","f","i","s","h","e","y","e","\""," "," ","#"," ","U","l","t","r","a","-","w","i","d","e",","," ","d","i","s","t","o","r","t","e","d"," ","p","e","r","s","p","e","c","t","i","v","e",","," ","c","r","e","a","t","i","v","e"," ","e","f","f","e","c","t","s">>,   \* "    FISHEYE = \"fisheye\"  # Ultra-wide, distorted perspective, creative effects"
           <<>> >> ]

\* class LightingType(str, Enum): schema.py lines 91-104.  members: the values in
\* iteration order; source: inspect.getsource(LightingType).split("\n").
LightingTypeClass ==
    [ name    |-> <<"L","i","g","h","t","i","n","g","T","y","p","e">>,   \* "LightingType"
      members |-> << <<"n","a","t","u","r","a","l">>, <<"g","o","l","d","e","n","_","h","o","u","r">>, <<"b","l","u","e","_","h","o","u","r">>, <<"s","t","u","d","i","o">>, <<"s","o","f","t","_","b","o","x">>, <<"h","a","r","d","_","l","i","g","h","t">>, <<"b","a","c","k","l","i","g","h","t","i","n","g">>, <<"s","i","d","e","_","l","i","g","h","t","i","n","g">>, <<"r","i","n","g","_","l","i","g","h","t">>, <<"c","a","n","d","l","e","l","i","g","h","t">>, <<"n","e","o","n">> >>,   \* "natural" "golden_hour" "blue_hour" "studio" "soft_box" "hard_light" "backlighting" "side_lighting" "ring_light" "candlelight" "neon"
      source  |->
        << <<"c","l","a","s","s"," ","L","i","g","h","t","i","n","g","T","y","p","e","(","s","t","r",","," ","E","n","u","m",")",":">>,   \* "class LightingType(str, Enum):"
           <<" "," "," "," ","\"","\"","\"","L","i","g","h","t","i","n","g"," ","s","e","t","u","p"," ","t","y","p","e","s"," ","f","o","r"," ","p","h","o","t","o","g","r","a","p","h","y",".","\"","\"","\"">>,   \* "    \"\"\"Lighting setup types for photography.\"\"\""
           <<>>,
           <<" "," "," "," ","N","A","T","U","R","A","L"," ","="," ","\"","n","a","t","u","r","a","l","\""," "," ","#"," ","S","u","n","l","i","g","h","t",","," ","a","m","b","i","e","n","t"," ","l","i","g","h","t","i","n","g",","," ","o","u","t","d","o","o","r","s">>,   \* "    NATURAL = \"natural\"  # Sunlight, ambient lighting, outdoors"
           <<" "," "," "," ","G","O","L","D","E","N","_","H","O","U","R"," ","="," ","\"","g","o","l","d","e","n","_","h","o","u","r","\""," "," ","#"," ","W","a","r","m",","," ","s","o","f","t"," ","s","u","n","s","e","t","/","s","u","n","r","i","s","e"," ","l","i","g","h","t">>,   \* "    GOLDEN_HOUR = \"golden_hour\"  # Warm, soft sunset/sunrise light"
           <<" "," "," "," ","B","L","U","E","_","H","O","U","R"," ","="," ","\"","b","l","u","e","_","h","o","u","r","\""," "," ","#"," ","C","o","o","l"," ","t","w","i","l","i","g","h","t"," ","l","i","g","h","t","i","n","g",","," ","m","a","g","i","c","a","l"," ","a","t","m","o","s","p","h","e","r","e">>,   \* "    BLUE_HOUR = \"blue_hour\"  # Cool twilight lighting, magical atmosphere"
           <<" "," "," "," ","S","T","U","D","I","O"," ","="," ","\"","s","t","u","d","i","o","\""," "," ","#"," ","C","o","n","t","r","o","l","l","e","d"," ","a","r","t","i","f","i","c","i","a","l"," ","l","i","g","h","t","i","n","g"," ","s","e","t","u","p">>,   \* "    STUDIO = \"studio\"  # Controlled artificial lighting setup"
           <<" "," "," "," ","S","O","F","T","_","B","O","X"," ","="," ","\"","s","o","f","t","_","b","o","x","\""," "," ","#"," ","D","i","f","f","u","s","e","d",","," ","e","v","e","n"," ","l","i","g","h","t","i","n","g",","," ","m","i","n","i","m","a","l"," ","s","h","a","d","o","w","s">>,   \* "    SOFT_BOX = \"soft_box\"  # Diffused, even lighting, minimal shadows"
           <<" "," "," "," ","H","A","R","D","_","L","I","G","H","T"," ","="," ","\"","h","a","r","d","_","l","i","g","h","t","\""," "," ","#"," ","S","h","a","r","p"," ","s","h","a","d","o","w","s",","," ","d","r","a","m","a","t","i","c"," ","c","o","n","t","r","a","s","t",","," ","d","i","r","e","c","t","i","o","n","a","l">>,   \* "    HARD_LIGHT = \"hard_light\"  # Sharp shadows, dramatic contrast, directional"
           <<" "," "," "," ","B","A","C","K","L","I","G","H","T","I","N","G"," ","="," ","\"","b","a","c","k","l","i","g","h","t","i","n","g","\""," "," ","#"," ","L","i","g","h","t"," ","b","e","h","i","n","d"," ","s","u","b","j","e","c","t",","," ","r","i","m"," ","l","i","g","h","t","i","n","g",","," ","s","i","l","h","o","u","e","t","t","e","s">>,   \* "    BACKLIGHTING = \"backlighting\"  # Light behind subject, rim lighting, silhouettes"
           <<" "," "," "," ","S","I","D","E","_","L","I","G","H","T","I","N","G"," ","="," ","\"","s","i","d","e","_","l","i","g","h","t","i","n","g","\""," "," ","#"," ","L","i","g","h","t"," ","f","r","o","m"," ","s","i","d","e",","," ","d","r","a","m","a","t","i","c"," ","s","h","a","d","o","w","s",","," ","d","e","p","t","h">>,   \* "    SIDE_LIGHTING = \"side_lighting\"  # Light from side, dramatic shadows, depth"
           <<" "," "," "," ","R","I","N","G","_","L","I","G","H","T"," ","="," ","\"","r","i","n","g","_","l","i","g","h","t","\""," "," ","#"," ","E","v","e","n",","," ","s","h","a","d","o","w","l","e","s","s"," ","l","i","g","h","t","i","n","g",","," ","b","e","a","u","t","y"," ","p","h","o","t","o","g","r","a","p","h","y">>,   \* "    RING_LIGHT = \"ring_light\"  # Even, shadowless lighting, beauty photography"
           <<" "," "," "," ","C","A","N","D","L","E","L","I","G","H","T"," ","="," ","\"","c","a","n","d","l","e","l","i","g","h","t","\""," "," ","#"," ","W","a","r","m",","," ","i","n","t","i","m","a","t","e"," ","a","t","m","o","s","p","h","e","r","e",","," ","l","o","w"," ","l","i","g","h","t">>,   \* "    CANDLELIGHT = \"candlelight\"  # Warm, intimate atmosphere, low light"
           <<" "," "," "," ","N","E","O","N"," ","="," ","\"","n","e","o","n","\""," "," ","#"," ","C","o","l","o","r","f","u","l"," ","a","r","t","i","f","i","c","i","a","l"," ","l","i","g","h","t","i","n","g",","," ","u","r","b","a","n"," ","n","i","g","h","t">>,   \* "    NEON = \"neon\"  # Colorful artificial lighting, urban night"
           <<>> >> ]

-----------------------------------------------------------------------------
(* schema.py: the fields as model_fields and get_type_hints present them   *)

\* Type hints.  Optional[X] is Union[X, None].
StrType == [kind |-> "class", name |-> <<"s","t","r">>]   \* "str"
NoneType == [kind |-> "class", name |-> <<"N","o","n","e","T","y","p","e">>]   \* "NoneType"
EnumType(enum_class) == [kind |-> "enum", class |-> enum_class]
LiteralType(vs) == [kind |-> "Literal", values |-> vs]
Optional(t) == [kind |-> "Union", args |-> <<t, NoneType>>]

\* ImagePrompt.model_fields in declaration order: schema.py lines 112-165
ImagePromptFields ==
    << "subject", "scene_description", "photography_type", "lens_type",
       "focal_length", "lighting_type", "lighting_description", "color_palette",
       "shot_type", "composition_technique", "artistic_style", "mood_and_emotion",
       "aspect_ratio", "image_quality", "camera_settings", "negative_prompt",
       "style_reference" >>

\* Field(description=...) of each field of ImagePrompt
ImagePromptDescription ==
    [ subject |->
        <<"T","h","e"," ","m","a","i","n"," ","s","u","b","j","e","c","t",","," ","o","b","j","e","c","t",","," ","p","e","r","s","o","n",","," ","o","r"," ","s","c","e","n","e"," ","t","h","a","t"," ","s","e","r","v","e","s"," ","a","s"," ","t","h","e"," ","f","o","c","a","l"," ","p","o","i","n","t","."," ","B","e"," ","s","p","e","c","i","f","i","c"," ","a","n","d"," ","d","e","s","c","r","i","p","t","i","v","e"," ","w","i","t","h"," ","u","n","i","q","u","e"," ","c","h","a","r","a","c","t","e","r","i","s","t","i","c","s","."," ","E","x","a","m","p","l","e","s",":"," ","'","a"," ","p","r","o","f","e","s","s","i","o","n","a","l"," ","w","o","m","a","n"," ","i","n"," ","a"," ","n","a","v","y"," ","b","l","a","z","e","r"," ","w","i","t","h"," ","c","o","n","f","i","d","e","n","t"," ","e","x","p","r","e","s","s","i","o","n","'",","," ","'","a"," ","v","i","n","t","a","g","e"," ","r","e","d"," ","b","i","c","y","c","l","e"," ","l","e","a","n","i","n","g"," ","a","g","a","i","n","s","t"," ","a"," ","w","e","a","t","h","e","r","e","d"," ","b","r","i","c","k"," ","w","a","l","l","'",","," ","'","a"," ","g","o","l","d","e","n"," ","r","e","t","r","i","e","v","e","r"," ","w","i","t","h"," ","f","l","o","p","p","y"," ","e","a","r","s"," ","s","i","t","t","i","n","g"," ","i","n"," ","a","u","t","u","m","n"," ","l","e","a","v","e","s","'">>,   \* "The main subject, object, person, or scene that serves as the focal point. Be specific and descriptive with unique characteristics. Examples: 'a professional woman in a navy blazer with confident expression', 'a vintage red bicycle leaning against a weathered brick wall', 'a golden retriever with floppy ears sitting in autumn leaves'"
      scene_description |->
        <<"D","e","t","a","i","l","e","d"," ","d","e","s","c","r","i","p","t","i","o","n"," ","o","f"," ","t","h","e"," ","s","e","t","t","i","n","g",","," ","e","n","v","i","r","o","n","m","e","n","t",","," ","a","n","d"," ","b","a","c","k","g","r","o","u","n","d"," ","c","o","n","t","e","x","t","."," ","I","n","c","l","u","d","e"," ","l","o","c","a","t","i","o","n",","," ","t","i","m","e"," ","o","f"," ","d","a","y",","," ","w","e","a","t","h","e","r",","," ","a","t","m","o","s","p","h","e","r","e",","," ","a","n","d"," ","s","u","r","r","o","u","n","d","i","n","g"," ","e","l","e","m","e","n","t","s","."," ","E","x","a","m","p","l","e","s",":"," ","'","i","n"," ","a"," ","m","o","d","e","r","n"," ","m","i","n","i","m","a","l","i","s","t"," ","o","f","f","i","c","e"," ","w","i","t","h"," ","f","l","o","o","r","-","t","o","-","c","e","i","l","i","n","g"," ","w","i","n","d","o","w","s","'",","," ","'","o","n"," ","a"," ","m","i","s","t","y"," ","m","o","u","n","t","a","i","n"," ","t","r","a","i","l"," ","d","u","r","i","n","g"," ","s","u","n","r","i","s","e","'",","," ","'","i","n"," ","a"," ","b","u","s","t","l","i","n","g"," ","T","o","k","y","o"," ","s","t","r","e","e","t"," ","w","i","t","h"," ","n","e","o","n"," ","s","i","g","n","s"," ","r","e","f","l","e","c","t","i","n","g"," ","o","n"," ","w","e","t"," ","p","a","v","e","m","e","n","t","'">>,   \* "Detailed description of the setting, environment, and background context. Include location, time of day, weather, atmosphere, and surrounding elements. Examples: 'in a modern minimalist office with floor-to-ceiling windows', 'on a misty mountain trail during sunrise', 'in a bustling Tokyo street with neon signs reflecting on wet pavement'"
      photography_type |->
        <<"T","y","p","e"," ","o","f"," ","p","h","o","t","o","g","r","a","p","h","y"," ","s","t","y","l","e"," ","t","h","a","t"," ","d","e","t","e","r","m","i","n","e","s"," ","o","v","e","r","a","l","l"," ","a","p","p","r","o","a","c","h"," ","a","n","d"," ","t","e","c","h","n","i","q","u","e","."," ","E","x","a","m","p","l","e","s",":"," ","'","p","o","r","t","r","a","i","t","'"," ","f","o","r"," ","p","e","o","p","l","e"," ","a","n","d"," ","c","h","a","r","a","c","t","e","r","s",","," ","'","l","a","n","d","s","c","a","p","e","'"," ","f","o","r"," ","s","c","e","n","e","r","y",","," ","'","m","a","c","r","o","'"," ","f","o","r"," ","c","l","o","s","e"," ","d","e","t","a","i","l","s",","," ","'","s","t","r","e","e","t","'"," ","f","o","r"," ","u","r","b","a","n"," ","c","a","n","d","i","d"," ","s","h","o","t","s">>,   \* "Type of photography style that determines overall approach and technique. Examples: 'portrait' for people and characters, 'landscape' for scenery, 'macro' for close details, 'street' for urban candid shots"
      lens_type |->
        <<"C","a","m","e","r","a"," ","l","e","n","s"," ","t","y","p","e"," ","t","h","a","t"," ","a","f","f","e","c","t","s"," ","p","e","r","s","p","e","c","t","i","v","e",","," ","d","e","p","t","h"," ","o","f"," ","f","i","e","l","d",","," ","a","n","d"," ","f","r","a","m","i","n","g","."," ","E","x","a","m","p","l","e","s",":"," ","'","w","i","d","e","_","a","n","g","l","e","'"," ","f","o","r"," ","d","r","a","m","a","t","i","c"," ","l","a","n","d","s","c","a","p","e","s",","," ","'","p","o","r","t","r","a","i","t","'"," ","f","o","r"," ","s","h","a","l","l","o","w"," ","D","O","F",","," ","'","t","e","l","e","p","h","o","t","o","'"," ","f","o","r"," ","d","i","s","t","a","n","t"," ","s","u","b","j","e","c","t","s",","," ","'","m","a","c","r","o","'"," ","f","o","r"," ","e","x","t","r","e","m","e"," ","c","l","o","s","e","-","u","p","s">>,   \* "Camera lens type that affects perspective, depth of field, and framing. Examples: 'wide_angle' for dramatic landscapes, 'portrait' for shallow DOF, 'telephoto' for distant subjects, 'macro' for extreme close-ups"
      focal_length |->
        <<"S","p","e","c","i","f","i","c"," ","f","o","c","a","l"," ","l","e","n","g","t","h"," ","m","e","a","s","u","r","e","m","e","n","t"," ","f","o","r"," ","p","r","e","c","i","s","e"," ","l","e","n","s"," ","c","o","n","t","r","o","l","."," ","E","x","a","m","p","l","e","s",":"," ","'","3","5","m","m","'"," ","f","o","r"," ","s","t","r","e","e","t"," ","p","h","o","t","o","g","r","a","p","h","y",","," ","'","8","5","m","m","'"," ","f","o","r"," ","p","o","r","t","r","a","i","t","s",","," ","'","2","0","0","m","m","'"," ","f","o","r"," ","w","i","l","d","l","i","f","e",","," ","'","1","4","m","m","'"," ","f","o","r"," ","u","l","t","r","a","-","w","i","d","e"," ","a","r","c","h","i","t","e","c","t","u","r","e">>,   \* "Specific focal length measurement for precise lens control. Examples: '35mm' for street photography, '85mm' for portraits, '200mm' for wildlife, '14mm' for ultra-wide architecture"
      lighting_type |->
        <<"P","r","i","m","a","r","y"," ","l","i","g","h","t","i","n","g"," ","s","e","t","u","p"," ","a","n","d"," ","q","u","a","l","i","t","y","."," ","E","x","a","m","p","l","e","s",":"," ","'","g","o","l","d","e","n","_","h","o","u","r","'"," ","f","o","r"," ","w","a","r","m"," ","s","u","n","s","e","t"," ","l","i","g","h","t",","," ","'","s","t","u","d","i","o","'"," ","f","o","r"," ","c","o","n","t","r","o","l","l","e","d"," ","l","i","g","h","t","i","n","g",","," ","'","n","a","t","u","r","a","l","'"," ","f","o","r"," ","o","u","t","d","o","o","r"," ","a","m","b","i","e","n","t",","," ","'","b","a","c","k","l","i","g","h","t","i","n","g","'"," ","f","o","r"," ","d","r","a","m","a","t","i","c"," ","s","i","l","h","o","u","e","t","t","e","s">>,   \* "Primary lighting setup and quality. Examples: 'golden_hour' for warm sunset light, 'studio' for controlled lighting, 'natural' for outdoor ambient, 'backlighting' for dramatic silhouettes"
      lighting_description |->
        <<"D","e","t","a","i","l","e","d"," ","l","i","g","h","t","i","n","g"," ","c","h","a","r","a","c","t","e","r","i","s","t","i","c","s"," ","b","e","y","o","n","d"," ","t","h","e"," ","b","a","s","i","c"," ","t","y","p","e","."," ","E","x","a","m","p","l","e","s",":"," ","'","d","r","a","m","a","t","i","c"," ","s","i","d","e"," ","l","i","g","h","t","i","n","g"," ","c","r","e","a","t","i","n","g"," ","s","t","r","o","n","g"," ","s","h","a","d","o","w","s"," ","o","n"," ","t","h","e"," ","l","e","f","t"," ","s","i","d","e","'",","," ","'","s","o","f","t"," ","d","i","f","f","u","s","e","d"," ","l","i","g","h","t"," ","f","r","o","m"," ","l","a","r","g","e"," ","w","i","n","d","o","w"," ","c","r","e","a","t","i","n","g"," ","g","e","n","t","l","e"," ","h","i","g","h","l","i","g","h","t","s","'",","," ","'","w","a","r","m"," ","c","a","n","d","l","e","l","i","g","h","t"," ","c","a","s","t","i","n","g"," ","f","l","i","c","k","e","r","i","n","g"," ","s","h","a","d","o","w","s"," ","w","i","t","h"," ","i","n","t","i","m","a","t","e"," ","a","t","m","o","s","p","h","e","r","e","'">>,   \* "Detailed lighting characteristics beyond the basic type. Examples: 'dramatic side lighting creating strong shadows on the left side', 'soft diffused light from large window creating gentle highlights', 'warm candlelight casting flickering shadows with intimate atmosphere'"
      color_palette |->
        <<"C","o","l","o","r"," ","s","c","h","e","m","e"," ","a","n","d"," ","t","o","n","a","l"," ","c","h","a","r","a","c","t","e","r","i","s","t","i","c","s"," ","o","f"," ","t","h","e"," ","i","m","a","g","e","."," ","E","x","a","m","p","l","e","s",":"," ","'","w","a","r","m"," ","e","a","r","t","h"," ","t","o","n","e","s"," ","w","i","t","h"," ","g","o","l","d","e","n"," ","a","n","d"," ","b","r","o","w","n"," ","h","u","e","s","'",","," ","'","m","o","n","o","c","h","r","o","m","a","t","i","c"," ","b","l","u","e"," ","p","a","l","e","t","t","e"," ","w","i","t","h"," ","v","a","r","i","o","u","s"," ","s","h","a","d","e","s","'",","," ","'","v","i","b","r","a","n","t"," ","s","a","t","u","r","a","t","e","d"," ","c","o","l","o","r","s"," ","w","i","t","h"," ","n","e","o","n"," ","a","c","c","e","n","t","s","'">>,   \* "Color scheme and tonal characteristics of the image. Examples: 'warm earth tones with golden and brown hues', 'monochromatic blue palette with various shades', 'vibrant saturated colors with neon accents'"
      shot_type |->
        <<"S","h","o","t"," ","f","r","a","m","i","n","g"," ","a","n","d"," ","c","a","m","e","r","a"," ","a","n","g","l","e","."," ","E","x","a","m","p","l","e","s",":"," ","'","c","l","o","s","e","_","u","p","'"," ","f","o","r"," ","f","a","c","i","a","l"," ","d","e","t","a","i","l","s",","," ","'","w","i","d","e","_","s","h","o","t","'"," ","f","o","r"," ","f","u","l","l"," ","e","n","v","i","r","o","n","m","e","n","t",","," ","'","l","o","w","_","a","n","g","l","e","'"," ","f","o","r"," ","p","o","w","e","r","f","u","l"," ","s","u","b","j","e","c","t","s",","," ","'","b","i","r","d","_","e","y","e","'"," ","f","o","r"," ","o","v","e","r","h","e","a","d"," ","p","e","r","s","p","e","c","t","i","v","e">>,   \* "Shot framing and camera angle. Examples: 'close_up' for facial details, 'wide_shot' for full environment, 'low_angle' for powerful subjects, 'bird_eye' for overhead perspective"
      composition_technique |->
        <<"A","r","t","i","s","t","i","c"," ","c","o","m","p","o","s","i","t","i","o","n"," ","r","u","l","e","s"," ","a","n","d"," ","f","r","a","m","i","n","g"," ","t","e","c","h","n","i","q","u","e","s","."," ","E","x","a","m","p","l","e","s",":"," ","'","r","u","l","e"," ","o","f"," ","t","h","i","r","d","s"," ","w","i","t","h"," ","s","u","b","j","e","c","t"," ","p","o","s","i","t","i","o","n","e","d"," ","o","n"," ","l","e","f","t"," ","i","n","t","e","r","s","e","c","t","i","o","n","'",","," ","'","s","y","m","m","e","t","r","i","c","a","l"," ","c","o","m","p","o","s","i","t","i","o","n"," ","w","i","t","h"," ","p","e","r","f","e","c","t"," ","c","e","n","t","e","r"," ","b","a","l","a","n","c","e","'",","," ","'","l","e","a","d","i","n","g"," ","l","i","n","e","s"," ","d","r","a","w","i","n","g"," ","v","i","e","w","e","r","'","s"," ","e","y","e"," ","f","r","o","m"," ","f","o","r","e","g","r","o","u","n","d"," ","t","o"," ","b","a","c","k","g","r","o","u","n","d","'">>,   \* "Artistic composition rules and framing techniques. Examples: 'rule of thirds with subject positioned on left intersection', 'symmetrical composition with perfect center balance', 'leading lines drawing viewer's eye from foreground to background'"
      artistic_style |->
        <<"A","r","t","i","s","t","i","c"," ","m","o","v","e","m","e","n","t",","," ","a","e","s","t","h","e","t","i","c",","," ","o","r"," ","v","i","s","u","a","l"," ","s","t","y","l","e"," ","i","n","s","p","i","r","a","t","i","o","n","."," ","E","x","a","m","p","l","e","s",":"," ","'","R","e","n","a","i","s","s","a","n","c","e"," ","p","a","i","n","t","i","n","g"," ","s","t","y","l","e"," ","w","i","t","h"," ","d","r","a","m","a","t","i","c"," ","c","h","i","a","r","o","s","c","u","r","o","'",","," ","'","m","i","n","i","m","a","l","i","s","t"," ","m","o","d","e","r","n"," ","a","e","s","t","h","e","t","i","c"," ","w","i","t","h"," ","c","l","e","a","n"," ","l","i","n","e","s","'",","," ","'","c","y","b","e","r","p","u","n","k"," ","a","e","s","t","h","e","t","i","c"," ","w","i","t","h"," ","n","e","o","n"," ","c","o","l","o","r","s"," ","a","n","d"," ","u","r","b","a","n"," ","d","e","c","a","y","'">>,   \* "Artistic movement, aesthetic, or visual style inspiration. Examples: 'Renaissance painting style with dramatic chiaroscuro', 'minimalist modern aesthetic with clean lines', 'cyberpunk aesthetic with neon colors and urban decay'"
      mood_and_emotion |->
        <<"E","m","o","t","i","o","n","a","l"," ","t","o","n","e"," ","a","n","d"," ","p","s","y","c","h","o","l","o","g","i","c","a","l"," ","f","e","e","l","i","n","g"," ","t","h","e"," ","i","m","a","g","e"," ","s","h","o","u","l","d"," ","c","o","n","v","e","y","."," ","E","x","a","m","p","l","e","s",":"," ","'","s","e","r","e","n","e"," ","a","n","d"," ","p","e","a","c","e","f","u","l"," ","w","i","t","h"," ","c","a","l","m","i","n","g"," ","a","t","m","o","s","p","h","e","r","e","'",","," ","'","d","r","a","m","a","t","i","c"," ","a","n","d"," ","i","n","t","e","n","s","e"," ","w","i","t","h"," ","t","e","n","s","i","o","n"," ","a","n","d"," ","e","n","e","r","g","y","'",","," ","'","n","o","s","t","a","l","g","i","c"," ","a","n","d"," ","m","e","l","a","n","c","h","o","l","i","c"," ","w","i","t","h"," ","w","i","s","t","f","u","l"," ","s","a","d","n","e","s","s","'">>,   \* "Emotional tone and psychological feeling the image should convey. Examples: 'serene and peaceful with calming atmosphere', 'dramatic and intense with tension and energy', 'nostalgic and melancholic with wistful sadness'"
      aspect_ratio |->
        <<"I","m","a","g","e"," ","p","r","o","p","o","r","t","i","o","n","s"," ","f","o","r"," ","d","i","f","f","e","r","e","n","t"," ","u","s","e"," ","c","a","s","e","s","."," ","E","x","a","m","p","l","e","s",":"," ","'","1",":","1","'"," ","f","o","r"," ","s","o","c","i","a","l"," ","m","e","d","i","a"," ","p","o","s","t","s",","," ","'","1","6",":","9","'"," ","f","o","r"," ","d","i","s","p","l","a","y","s",","," ","'","9",":","1","6","'"," ","f","o","r"," ","m","o","b","i","l","e"," ","c","o","n","t","e","n","t",","," ","'","3",":","2","'"," ","f","o","r"," ","n","a","t","u","r","a","l"," ","p","h","o","t","o","g","r","a","p","h","y">>,   \* "Image proportions for different use cases. Examples: '1:1' for social media posts, '16:9' for displays, '9:16' for mobile content, '3:2' for natural photography"
      image_quality |->
        <<"I","m","a","g","e"," ","r","e","s","o","l","u","t","i","o","n"," ","a","n","d"," ","d","e","t","a","i","l"," ","l","e","v","e","l","."," ","E","x","a","m","p","l","e","s",":"," ","'","h","i","g","h","'"," ","f","o","r"," ","d","e","t","a","i","l","e","d"," ","w","o","r","k",","," ","'","u","l","t","r","a","'"," ","f","o","r"," ","m","a","x","i","m","u","m"," ","r","e","s","o","l","u","t","i","o","n",","," ","'","a","r","t","i","s","t","i","c","'"," ","f","o","r"," ","c","r","e","a","t","i","v","e"," ","i","n","t","e","r","p","r","e","t","a","t","i","o","n"," ","w","i","t","h"," ","s","t","y","l","i","z","a","t","i","o","n">>,   \* "Image resolution and detail level. Examples: 'high' for detailed work, 'ultra' for maximum resolution, 'artistic' for creative interpretation with stylization"
      camera_settings |->
        <<"S","p","e","c","i","f","i","c"," ","c","a","m","e","r","a"," ","t","e","c","h","n","i","c","a","l"," ","s","e","t","t","i","n","g","s"," ","f","o","r"," ","p","h","o","t","o","r","e","a","l","i","s","t","i","c"," ","r","e","s","u","l","t","s","."," ","E","x","a","m","p","l","e","s",":"," ","'","f","/","1",".","4"," ","s","h","a","l","l","o","w"," ","d","e","p","t","h"," ","o","f"," ","f","i","e","l","d","'",","," ","'","f","/","8"," ","s","h","a","r","p"," ","f","o","c","u","s"," ","t","h","r","o","u","g","h","o","u","t","'",","," ","'","1","/","5","0","0","s"," ","f","a","s","t"," ","s","h","u","t","t","e","r"," ","s","p","e","e","d"," ","f","r","e","e","z","i","n","g"," ","m","o","t","i","o","n","'",","," ","'","I","S","O"," ","1","0","0"," ","m","i","n","i","m","a","l"," ","n","o","i","s","e","'">>,   \* "Specific camera technical settings for photorealistic results. Examples: 'f/1.4 shallow depth of field', 'f/8 sharp focus throughout', '1/500s fast shutter speed freezing motion', 'ISO 100 minimal noise'"
      negative_prompt |->
        <<"V","i","s","u","a","l"," ","e","l","e","m","e","n","t","s"," ","t","o"," ","a","v","o","i","d"," ","o","r"," ","e","x","c","l","u","d","e"," ","f","r","o","m"," ","t","h","e"," ","i","m","a","g","e","."," ","E","x","a","m","p","l","e","s",":"," ","'","b","l","u","r","r","y"," ","d","e","t","a","i","l","s",","," ","o","v","e","r","e","x","p","o","s","e","d"," ","h","i","g","h","l","i","g","h","t","s",","," ","d","i","s","t","o","r","t","e","d"," ","p","r","o","p","o","r","t","i","o","n","s","'",","," ","'","a","r","t","i","f","i","c","i","a","l"," ","l","i","g","h","t","i","n","g",","," ","c","l","u","t","t","e","r","e","d"," ","b","a","c","k","g","r","o","u","n","d",","," ","p","o","o","r"," ","c","o","m","p","o","s","i","t","i","o","n","'">>,   \* "Visual elements to avoid or exclude from the image. Examples: 'blurry details, overexposed highlights, distorted proportions', 'artificial lighting, cluttered background, poor composition'"
      style_reference |->
        <<"R","e","f","e","r","e","n","c","e"," ","t","o"," ","s","p","e","c","i","f","i","c"," ","p","h","o","t","o","g","r","a","p","h","e","r","s",","," ","a","r","t","i","s","t","s",","," ","f","i","l","m","s",","," ","o","r"," ","v","i","s","u","a","l"," ","w","o","r","k","s","."," ","E","x","a","m","p","l","e","s",":"," ","'","A","n","n","i","e"," ","L","e","i","b","o","v","i","t","z"," ","p","o","r","t","r","a","i","t"," ","s","t","y","l","e","'",","," ","'","A","n","s","e","l"," ","A","d","a","m","s"," ","l","a","n","d","s","c","a","p","e"," ","p","h","o","t","o","g","r","a","p","h","y","'",","," ","'","B","l","a","d","e"," ","R","u","n","n","e","r"," ","2","0","4","9"," ","c","i","n","e","m","a","t","o","g","r","a","p","h","y","'",","," ","'","S","t","u","d","i","o"," ","G","h","i","b","l","i"," ","a","n","i","m","a","t","i","o","n"," ","a","e","s","t","h","e","t","i","c","'">> ]   \* "Reference to specific photographers, artists, films, or visual works. Examples: 'Annie Leibovitz portrait style', 'Ansel Adams landscape photography', 'Blade Runner 2049 cinematography', 'Studio Ghibli animation aesthetic'"

\* get_type_hints(ImagePrompt)
ImagePromptTypeHints ==
    [ subject |-> StrType,
      scene_description |-> StrType,
      photography_type |-> Optional(EnumType(PhotographyTypeClass)),
      lens_type |-> Optional(EnumType(LensTypeClass)),
      focal_length |-> Optional(StrType),
      lighting_type |-> Optional(EnumType(LightingTypeClass)),
      lighting_description |-> Optional(StrType),
      color_palette |-> Optional(StrType),
      shot_type |-> Optional(EnumType(ShotTypeClass)),
      composition_technique |-> Optional(StrType),
      artistic_style |-> Optional(StrType),
      mood_and_emotion |-> Optional(StrType),
      aspect_ratio |-> Optional(EnumType(AspectRatioClass)),
      image_quality |-> Optional(LiteralType(<< <<"s","t","a","n","d","a","r","d">>, <<"h","i","g","h">>, <<"u","l","t","r","a">>, <<"a","r","t","i","s","t","i","c">> >>)),   \* "standard" "high" "ultra" "artistic"
      camera_settings |-> Optional(StrType),
      negative_prompt |-> Optional(StrType),
      style_reference |-> Optional(StrType) ]

\* ImagePrompt.Config.json_schema_extra["example"], as (key, value) pairs in dict order
ImagePromptExample ==
    << << <<"s","u","b","j","e","c","t">>,   \* "subject"
          <<"a"," ","p","r","o","f","e","s","s","i","o","n","a","l"," ","w","o","m","a","n"," ","i","n"," ","h","e","r"," ","3","0","s"," ","w","e","a","r","i","n","g"," ","a"," ","n","a","v","y"," ","b","l","a","z","e","r"," ","w","i","t","h"," ","c","o","n","f","i","d","e","n","t"," ","e","x","p","r","e","s","s","i","o","n">> >>,   \* "a professional woman in her 30s wearing a navy blazer with confident expression"
       << <<"s","c","e","n","e","_","d","e","s","c","r","i","p","t","i","o","n">>,   \* "scene_description"
          <<"i","n"," ","a"," ","m","o","d","e","r","n"," ","m","i","n","i","m","a","l","i","s","t"," ","o","f","f","i","c","e"," ","w","i","t","h"," ","f","l","o","o","r","-","t","o","-","c","e","i","l","i","n","g"," ","w","i","n","d","o","w","s"," ","o","v","e","r","l","o","o","k","i","n","g"," ","a"," ","c","i","t","y"," ","s","k","y","l","i","n","e"," ","d","u","r","i","n","g"," ","g","o","l","d","e","n"," ","h","o","u","r">> >>,   \* "in a modern minimalist office with floor-to-ceiling windows overlooking a city skyline during golden hour"
       << <<"p","h","o","t","o","g","r","a","p","h","y","_","t","y","p","e">>,   \* "photography_type"
          <<"p","o","r","t","r","a","i","t">> >>,   \* "portrait"
       << <<"l","e","n","s","_","t","y","p","e">>,   \* "lens_type"
          <<"p","o","r","t","r","a","i","t">> >>,   \* "portrait"
       << <<"f","o","c","a","l","_","l","e","n","g","t","h">>,   \* "focal_length"
          <<"8","5","m","m">> >>,   \* "85mm"
       << <<"l","i","g","h","t","i","n","g","_","t","y","p","e">>,   \* "lighting_type"
          <<"g","o","l","d","e","n","_","h","o","u","r">> >>,   \* "golden_hour"
       << <<"l","i","g","h","t","i","n","g","_","d","e","s","c","r","i","p","t","i","o","n">>,   \* "lighting_description"
          <<"w","a","r","m"," ","g","o","l","d","e","n"," ","l","i","g","h","t"," ","s","t","r","e","a","m","i","n","g"," ","t","h","r","o","u","g","h"," ","w","i","n","d","o","w","s"," ","c","r","e","a","t","i","n","g"," ","s","o","f","t"," ","h","i","g","h","l","i","g","h","t","s"," ","o","n"," ","h","e","r"," ","f","a","c","e">> >>,   \* "warm golden light streaming through windows creating soft highlights on her face"
       << <<"c","o","l","o","r","_","p","a","l","e","t","t","e">>,   \* "color_palette"
          <<"w","a","r","m"," ","g","o","l","d","e","n"," ","t","o","n","e","s"," ","w","i","t","h"," ","d","e","e","p"," ","b","l","u","e"," ","a","c","c","e","n","t","s"," ","f","r","o","m"," ","t","h","e"," ","c","i","t","y","s","c","a","p","e">> >>,   \* "warm golden tones with deep blue accents from the cityscape"
       << <<"s","h","o","t","_","t","y","p","e">>,   \* "shot_type"
          <<"m","e","d","i","u","m","_","c","l","o","s","e","_","u","p">> >>,   \* "medium_close_up"
       << <<"c","o","m","p","o","s","i","t","i","o","n","_","t","e","c","h","n","i","q","u","e">>,   \* "composition_technique"
          <<"r","u","l","e"," ","o","f"," ","t","h","i","r","d","s"," ","w","i","t","h"," ","s","u","b","j","e","c","t"," ","p","o","s","i","t","i","o","n","e","d"," ","o","n"," ","r","i","g","h","t"," ","i","n","t","e","r","s","e","c","t","i","o","n">> >>,   \* "rule of thirds with subject positioned on right intersection"
       << <<"a","r","t","i","s","t","i","c","_","s","t","y","l","e">>,   \* "artistic_style"
          <<"c","o","n","t","e","m","p","o","r","a","r","y"," ","c","o","r","p","o","r","a","t","e"," ","p","o","r","t","r","a","i","t"," ","w","i","t","h"," ","c","i","n","e","m","a","t","i","c"," ","q","u","a","l","i","t","y">> >>,   \* "contemporary corporate portrait with cinematic quality"
       << <<"m","o","o","d","_","a","n","d","_","e","m","o","t","i","o","n">>,   \* "mood_and_emotion"
          <<"c","o","n","f","i","d","e","n","t"," ","a","n","d"," ","p","r","o","f","e","s","s","i","o","n","a","l"," ","w","i","t","h"," ","a","p","p","r","o","a","c","h","a","b","l","e"," ","w","a","r","m","t","h">> >>,   \* "confident and professional with approachable warmth"
       << <<"a","s","p","e","c","t","_","r","a","t","i","o">>,   \* "aspect_ratio"
          <<"3",":","2">> >>,   \* "3:2"
       << <<"i","m","a","g","e","_","q","u","a","l","i","t","y">>,   \* "image_quality"
          <<"h","i","g","h">> >>,   \* "high"
       << <<"c","a","m","e","r","a","_","s","e","t","t","i","n","g","s">>,   \* "camera_settings"
          <<"f","/","2",".","8"," ","s","h","a","l","l","o","w"," ","d","e","p","t","h"," ","o","f"," ","f","i","e","l","d"," ","w","i","t","h"," ","s","h","a","r","p"," ","f","o","c","u","s"," ","o","n"," ","e","y","e","s">> >> >>   \* "f/2.8 shallow depth of field with sharp focus on eyes"

\* VideoPrompt.model_fields in declaration order: schema.py lines 173-225
VideoPromptFields ==
    << "subject", "context", "action", "style",
       "camera_movement", "camera_description", "shot_type", "composition",
       "lighting", "ambiance", "aspect_ratio", "duration_preference",
       "motion_intensity", "negative_prompt", "reference_style", "transition_type",
       "emotional_tone" >>

\* Field(description=...) of each field of VideoPrompt
VideoPromptDescription ==
    [ subject |->
        <<"T","h","e"," ","p","r","i","m","a","r","y"," ","o","b","j","e","c","t",","," ","p","e","r","s","o","n",","," ","a","n","i","m","a","l",","," ","o","r"," ","s","c","e","n","e","r","y"," ","t","h","a","t"," ","s","e","r","v","e","s"," ","a","s"," ","t","h","e"," ","m","a","i","n"," ","f","o","c","u","s","."," ","B","e"," ","s","p","e","c","i","f","i","c"," ","a","n","d"," ","d","e","s","c","r","i","p","t","i","v","e"," ","w","i","t","h"," ","u","n","i","q","u","e"," ","c","h","a","r","a","c","t","e","r","i","s","t","i","c","s","."," ","E","x","a","m","p","l","e","s",":"," ","'","a"," ","g","o","l","d","e","n"," ","r","e","t","r","i","e","v","e","r"," ","w","i","t","h"," ","f","l","o","p","p","y"," ","e","a","r","s","'",","," ","'","a"," ","m","a","j","e","s","t","i","c"," ","o","a","k"," ","t","r","e","e"," ","w","i","t","h"," ","a","u","t","u","m","n"," ","l","e","a","v","e","s","'",","," ","'","a"," ","w","o","m","a","n"," ","i","n"," ","a"," ","r","e","d"," ","d","r","e","s","s","'">>,   \* "The primary object, person, animal, or scenery that serves as the main focus. Be specific and descriptive with unique characteristics. Examples: 'a golden retriever with floppy ears', 'a majestic oak tree with autumn leaves', 'a woman in a red dress'"
      context |->
        <<"T","h","e"," ","b","a","c","k","g","r","o","u","n","d",","," ","s","e","t","t","i","n","g",","," ","o","r"," ","e","n","v","i","r","o","n","m","e","n","t"," ","w","h","e","r","e"," ","t","h","e"," ","a","c","t","i","o","n"," ","t","a","k","e","s"," ","p","l","a","c","e","."," ","I","n","c","l","u","d","e"," ","s","p","a","t","i","a","l"," ","r","e","l","a","t","i","o","n","s","h","i","p","s"," ","a","n","d"," ","e","n","v","i","r","o","n","m","e","n","t","a","l"," ","d","e","t","a","i","l","s","."," ","E","x","a","m","p","l","e","s",":"," ","'","i","n"," ","a"," ","m","i","s","t","y"," ","f","o","r","e","s","t"," ","c","l","e","a","r","i","n","g"," ","a","t"," ","d","a","w","n","'",","," ","'","o","n"," ","a"," ","b","u","s","y"," ","c","i","t","y"," ","s","t","r","e","e","t"," ","d","u","r","i","n","g"," ","r","u","s","h"," ","h","o","u","r","'",","," ","'","i","n","s","i","d","e"," ","a"," ","c","o","z","y"," ","l","i","b","r","a","r","y"," ","w","i","t","h"," ","w","a","r","m"," ","l","i","g","h","t","i","n","g","'">>,   \* "The background, setting, or environment where the action takes place. Include spatial relationships and environmental details. Examples: 'in a misty forest clearing at dawn', 'on a busy city street during rush hour', 'inside a cozy library with warm lighting'"
      action |->
        <<"S","p","e","c","i","f","i","c"," ","a","c","t","i","o","n","s",","," ","m","o","v","e","m","e","n","t","s",","," ","o","r"," ","b","e","h","a","v","i","o","r","s"," ","t","h","e"," ","s","u","b","j","e","c","t"," ","p","e","r","f","o","r","m","s","."," ","U","s","e"," ","a","c","t","i","v","e",","," ","c","o","n","c","r","e","t","e"," ","v","e","r","b","s"," ","r","a","t","h","e","r"," ","t","h","a","n"," ","a","b","s","t","r","a","c","t"," ","c","o","n","c","e","p","t","s","."," ","E","x","a","m","p","l","e","s",":"," ","'","w","a","l","k","s"," ","s","l","o","w","l","y"," ","w","h","i","l","e"," ","l","o","o","k","i","n","g"," ","o","v","e","r"," ","s","h","o","u","l","d","e","r","'",","," ","'","j","u","m","p","s"," ","w","i","t","h"," ","e","x","c","i","t","e","m","e","n","t",","," ","a","r","m","s"," ","r","a","i","s","e","d"," ","h","i","g","h","'",","," ","'","c","a","r","e","f","u","l","l","y"," ","p","a","i","n","t","s"," ","b","r","u","s","h","s","t","r","o","k","e","s"," ","o","n"," ","c","a","n","v","a","s","'">>,   \* "Specific actions, movements, or behaviors the subject performs. Use active, concrete verbs rather than abstract concepts. Examples: 'walks slowly while looking over shoulder', 'jumps with excitement, arms raised high', 'carefully paints brushstrokes on canvas'"
      style |->
        <<"V","i","s","u","a","l"," ","a","n","d"," ","a","e","s","t","h","e","t","i","c"," ","s","t","y","l","e"," ","f","o","r"," ","t","h","e"," ","v","i","d","e","o","."," ","E","x","a","m","p","l","e","s",":"," ","'","f","i","l","m"," ","n","o","i","r"," ","w","i","t","h"," ","h","i","g","h"," ","c","o","n","t","r","a","s","t"," ","s","h","a","d","o","w","s","'",","," ","'","S","t","u","d","i","o"," ","G","h","i","b","l","i"," ","a","n","i","m","a","t","e","d"," ","s","t","y","l","e","'",","," ","'","c","i","n","e","m","a","t","i","c"," ","h","o","r","r","o","r"," ","f","i","l","m"," ","a","t","m","o","s","p","h","e","r","e","'",","," ","'","1","9","7","0","s"," ","r","e","t","r","o"," ","a","e","s","t","h","e","t","i","c"," ","w","i","t","h"," ","w","a","r","m"," ","f","i","l","m"," ","g","r","a","i","n","'">>,   \* "Visual and aesthetic style for the video. Examples: 'film noir with high contrast shadows', 'Studio Ghibli animated style', 'cinematic horror film atmosphere', '1970s retro aesthetic with warm film grain'"
      camera_movement |->
        <<"T","y","p","e"," ","o","f"," ","c","a","m","e","r","a"," ","m","o","v","e","m","e","n","t"," ","d","u","r","i","n","g"," ","t","h","e"," ","s","h","o","t","."," ","E","x","a","m","p","l","e","s",":"," ","'","s","t","a","t","i","c","'"," ","f","o","r"," ","s","t","a","t","i","o","n","a","r","y"," ","c","a","m","e","r","a",","," ","'","t","r","a","c","k","i","n","g","'"," ","t","o"," ","f","o","l","l","o","w"," ","s","u","b","j","e","c","t",","," ","'","d","r","o","n","e","'"," ","f","o","r"," ","a","e","r","i","a","l"," ","p","e","r","s","p","e","c","t","i","v","e","s",","," ","'","h","a","n","d","h","e","l","d","'"," ","f","o","r"," ","d","o","c","u","m","e","n","t","a","r","y"," ","s","t","y","l","e">>,   \* "Type of camera movement during the shot. Examples: 'static' for stationary camera, 'tracking' to follow subject, 'drone' for aerial perspectives, 'handheld' for documentary style"
      camera_description |->
        <<"D","e","t","a","i","l","e","d"," ","d","e","s","c","r","i","p","t","i","o","n"," ","o","f"," ","c","a","m","e","r","a"," ","b","e","h","a","v","i","o","r"," ","a","n","d"," ","m","o","v","e","m","e","n","t","."," ","E","x","a","m","p","l","e","s",":"," ","'","s","m","o","o","t","h"," ","d","o","l","l","y"," ","s","h","o","t"," ","m","o","v","i","n","g"," ","f","r","o","m"," ","l","e","f","t"," ","t","o"," ","r","i","g","h","t","'",","," ","'","h","a","n","d","h","e","l","d"," ","c","a","m","e","r","a"," ","w","i","t","h"," ","g","e","n","t","l","e"," ","n","a","t","u","r","a","l"," ","m","o","v","e","m","e","n","t","'",","," ","'","s","t","a","t","i","c"," ","w","i","d","e"," ","s","h","o","t"," ","t","h","a","t"," ","s","l","o","w","l","y"," ","z","o","o","m","s"," ","i","n","t","o"," ","c","h","a","r","a","c","t","e","r","'","s"," ","f","a","c","e","'">>,   \* "Detailed description of camera behavior and movement. Examples: 'smooth dolly shot moving from left to right', 'handheld camera with gentle natural movement', 'static wide shot that slowly zooms into character's face'"
      shot_type |->
        <<"S","h","o","t"," ","c","o","m","p","o","s","i","t","i","o","n"," ","a","n","d"," ","f","r","a","m","i","n","g"," ","t","y","p","e","."," ","E","x","a","m","p","l","e","s",":"," ","'","w","i","d","e","_","s","h","o","t","'"," ","f","o","r"," ","f","u","l","l"," ","e","n","v","i","r","o","n","m","e","n","t",","," ","'","c","l","o","s","e","_","u","p","'"," ","f","o","r"," ","f","a","c","i","a","l"," ","d","e","t","a","i","l","s",","," ","'","l","o","w","_","a","n","g","l","e","'"," ","f","o","r"," ","p","o","w","e","r","f","u","l"," ","s","u","b","j","e","c","t","s",","," ","'","b","i","r","d","_","e","y","e","'"," ","f","o","r"," ","o","v","e","r","h","e","a","d"," ","v","i","e","w">>,   \* "Shot composition and framing type. Examples: 'wide_shot' for full environment, 'close_up' for facial details, 'low_angle' for powerful subjects, 'bird_eye' for overhead view"
      composition |->
        <<"A","d","v","a","n","c","e","d"," ","s","h","o","t"," ","f","r","a","m","i","n","g"," ","a","n","d"," ","v","i","s","u","a","l"," ","c","o","m","p","o","s","i","t","i","o","n"," ","d","e","t","a","i","l","s","."," ","E","x","a","m","p","l","e","s",":"," ","'","r","u","l","e"," ","o","f"," ","t","h","i","r","d","s"," ","w","i","t","h"," ","s","u","b","j","e","c","t"," ","o","n"," ","l","e","f","t"," ","t","h","i","r","d","'",","," ","'","s","y","m","m","e","t","r","i","c","a","l"," ","c","o","m","p","o","s","i","t","i","o","n"," ","w","i","t","h"," ","c","e","n","t","e","r","e","d"," ","s","u","b","j","e","c","t","'",","," ","'","s","h","a","l","l","o","w"," ","d","e","p","t","h"," ","o","f"," ","f","i","e","l","d"," ","w","i","t","h"," ","b","l","u","r","r","e","d"," ","b","a","c","k","g","r","o","u","n","d","'">>,   \* "Advanced shot framing and visual composition details. Examples: 'rule of thirds with subject on left third', 'symmetrical composition with centered subject', 'shallow depth of field with blurred background'"
      lighting |->
        <<"L","i","g","h","t","i","n","g"," ","s","e","t","u","p",","," ","q","u","a","l","i","t","y",","," ","a","n","d"," ","c","h","a","r","a","c","t","e","r","i","s","t","i","c","s","."," ","E","x","a","m","p","l","e","s",":"," ","'","s","o","f","t"," ","g","o","l","d","e","n"," ","h","o","u","r"," ","l","i","g","h","t","i","n","g","'",","," ","'","d","r","a","m","a","t","i","c"," ","h","i","g","h"," ","c","o","n","t","r","a","s","t"," ","s","h","a","d","o","w","s","'",","," ","'","n","e","o","n"," ","l","i","g","h","t","i","n","g"," ","w","i","t","h"," ","c","o","l","o","r","e","d"," ","r","e","f","l","e","c","t","i","o","n","s","'",","," ","'","w","a","r","m"," ","c","a","n","d","l","e","l","i","g","h","t"," ","a","m","b","i","a","n","c","e","'">>,   \* "Lighting setup, quality, and characteristics. Examples: 'soft golden hour lighting', 'dramatic high contrast shadows', 'neon lighting with colored reflections', 'warm candlelight ambiance'"
      ambiance |->
        <<"O","v","e","r","a","l","l"," ","m","o","o","d",","," ","a","t","m","o","s","p","h","e","r","e",","," ","a","n","d"," ","e","n","v","i","r","o","n","m","e","n","t","a","l"," ","f","e","e","l","i","n","g","."," ","E","x","a","m","p","l","e","s",":"," ","'","w","a","r","m"," ","s","u","n","s","e","t"," ","t","o","n","e","s"," ","w","i","t","h"," ","o","r","a","n","g","e"," ","a","n","d"," ","p","i","n","k"," ","h","u","e","s","'",","," ","'","c","o","o","l"," ","b","l","u","e"," ","m","o","o","n","l","i","g","h","t"," ","w","i","t","h"," ","m","i","s","t","y"," ","a","t","m","o","s","p","h","e","r","e","'",","," ","'","b","r","i","g","h","t"," ","c","h","e","e","r","f","u","l"," ","s","p","r","i","n","g"," ","m","o","r","n","i","n","g"," ","w","i","t","h"," ","v","i","b","r","a","n","t"," ","c","o","l","o","r","s","'">>,   \* "Overall mood, atmosphere, and environmental feeling. Examples: 'warm sunset tones with orange and pink hues', 'cool blue moonlight with misty atmosphere', 'bright cheerful spring morning with vibrant colors'"
      aspect_ratio |->
        <<"V","i","d","e","o"," ","a","s","p","e","c","t"," ","r","a","t","i","o"," ","f","o","r"," ","d","i","f","f","e","r","e","n","t"," ","p","l","a","t","f","o","r","m","s","."," ","E","x","a","m","p","l","e","s",":"," ","'","1","6",":","9","'"," ","f","o","r"," ","l","a","n","d","s","c","a","p","e","/","T","V",","," ","'","9",":","1","6","'"," ","f","o","r"," ","m","o","b","i","l","e","/","s","o","c","i","a","l"," ","m","e","d","i","a",","," ","'","1",":","1","'"," ","f","o","r"," ","s","q","u","a","r","e"," ","s","o","c","i","a","l"," ","p","o","s","t","s",","," ","'","2","1",":","9","'"," ","f","o","r"," ","c","i","n","e","m","a","t","i","c"," ","u","l","t","r","a","w","i","d","e">>,   \* "Video aspect ratio for different platforms. Examples: '16:9' for landscape/TV, '9:16' for mobile/social media, '1:1' for square social posts, '21:9' for cinematic ultrawide"
      duration_preference |->
        <<"P","r","e","f","e","r","r","e","d"," ","v","i","d","e","o"," ","l","e","n","g","t","h"," ","b","a","s","e","d"," ","o","n"," ","c","o","n","t","e","n","t"," ","c","o","m","p","l","e","x","i","t","y","."," ","E","x","a","m","p","l","e","s",":"," ","'","s","h","o","r","t","'"," ","f","o","r"," ","q","u","i","c","k"," ","a","c","t","i","o","n","s"," ","(","2","-","5","s",")",","," ","'","m","e","d","i","u","m","'"," ","f","o","r"," ","s","t","a","n","d","a","r","d"," ","c","l","i","p","s"," ","(","5","-","1","0","s",")",","," ","'","l","o","n","g","'"," ","f","o","r"," ","c","o","m","p","l","e","x"," ","s","e","q","u","e","n","c","e","s"," ","(","1","0","+"," ","s","e","c","o","n","d","s",")">>,   \* "Preferred video length based on content complexity. Examples: 'short' for quick actions (2-5s), 'medium' for standard clips (5-10s), 'long' for complex sequences (10+ seconds)"
      motion_intensity |->
        <<"O","v","e","r","a","l","l"," ","a","m","o","u","n","t"," ","o","f"," ","m","o","v","e","m","e","n","t"," ","a","n","d"," ","a","c","t","i","o","n"," ","i","n"," ","t","h","e"," ","v","i","d","e","o","."," ","E","x","a","m","p","l","e","s",":"," ","'","s","u","b","t","l","e","'"," ","f","o","r"," ","g","e","n","t","l","e"," ","m","o","v","e","m","e","n","t",","," ","'","d","y","n","a","m","i","c","'"," ","f","o","r"," ","e","n","e","r","g","e","t","i","c"," ","a","c","t","i","o","n",","," ","'","i","n","t","e","n","s","e","'"," ","f","o","r"," ","h","i","g","h","-","e","n","e","r","g","y"," ","s","e","q","u","e","n","c","e","s"," ","w","i","t","h"," ","r","a","p","i","d"," ","c","h","a","n","g","e","s">>,   \* "Overall amount of movement and action in the video. Examples: 'subtle' for gentle movement, 'dynamic' for energetic action, 'intense' for high-energy sequences with rapid changes"
      negative_prompt |->
        <<"E","l","e","m","e","n","t","s"," ","t","o"," ","a","v","o","i","d"," ","o","r"," ","e","x","c","l","u","d","e"," ","f","r","o","m"," ","t","h","e"," ","v","i","d","e","o","."," ","E","x","a","m","p","l","e","s",":"," ","'","b","l","u","r","r","y"," ","m","o","t","i","o","n",","," ","c","a","m","e","r","a"," ","s","h","a","k","e",","," ","d","i","s","t","o","r","t","e","d"," ","f","a","c","e","s","'",","," ","'","p","o","o","r"," ","l","i","g","h","t","i","n","g",","," ","c","h","o","p","p","y"," ","m","o","v","e","m","e","n","t",","," ","u","n","n","a","t","u","r","a","l"," ","p","h","y","s","i","c","s","'">>,   \* "Elements to avoid or exclude from the video. Examples: 'blurry motion, camera shake, distorted faces', 'poor lighting, choppy movement, unnatural physics'"
      reference_style |->
        <<"R","e","f","e","r","e","n","c","e"," ","t","o"," ","s","p","e","c","i","f","i","c"," ","f","i","l","m","s",","," ","d","i","r","e","c","t","o","r","s",","," ","a","r","t","i","s","t","s",","," ","o","r"," ","v","i","s","u","a","l"," ","s","t","y","l","e","s","."," ","E","x","a","m","p","l","e","s",":"," ","'","B","l","a","d","e"," ","R","u","n","n","e","r"," ","2","0","4","9"," ","c","i","n","e","m","a","t","o","g","r","a","p","h","y","'",","," ","'","M","i","y","a","z","a","k","i"," ","a","n","i","m","a","t","i","o","n"," ","s","t","y","l","e","'",","," ","'","K","u","b","r","i","c","k"," ","s","y","m","m","e","t","r","i","c","a","l"," ","f","r","a","m","i","n","g","'",","," ","'","D","a","v","i","d"," ","F","i","n","c","h","e","r"," ","c","o","l","o","r"," ","g","r","a","d","i","n","g","'">>,   \* "Reference to specific films, directors, artists, or visual styles. Examples: 'Blade Runner 2049 cinematography', 'Miyazaki animation style', 'Kubrick symmetrical framing', 'David Fincher color grading'"
      transition_type |->
        <<"H","o","w"," ","t","h","e"," ","v","i","d","e","o"," ","s","h","o","u","l","d"," ","b","e","g","i","n",","," ","p","r","o","g","r","e","s","s",","," ","o","r"," ","e","n","d"," ","i","f"," ","p","a","r","t"," ","o","f"," ","a"," ","s","e","q","u","e","n","c","e","."," ","E","x","a","m","p","l","e","s",":"," ","'","f","a","d","e"," ","i","n"," ","f","r","o","m"," ","b","l","a","c","k","'",","," ","'","s","e","a","m","l","e","s","s"," ","l","o","o","p","'",","," ","'","n","a","t","u","r","a","l"," ","e","n","d","i","n","g"," ","w","i","t","h"," ","s","t","i","l","l","n","e","s","s","'",","," ","'","d","r","a","m","a","t","i","c"," ","r","e","v","e","a","l"," ","a","t"," ","c","l","i","m","a","x","'">>,   \* "How the video should begin, progress, or end if part of a sequence. Examples: 'fade in from black', 'seamless loop', 'natural ending with stillness', 'dramatic reveal at climax'"
      emotional_tone |->
        <<"T","h","e"," ","e","m","o","t","i","o","n","a","l"," ","f","e","e","l","i","n","g"," ","o","r"," ","m","o","o","d"," ","t","h","e"," ","v","i","d","e","o"," ","s","h","o","u","l","d"," ","c","o","n","v","e","y","."," ","E","x","a","m","p","l","e","s",":"," ","'","p","e","a","c","e","f","u","l"," ","a","n","d"," ","s","e","r","e","n","e","'",","," ","'","t","e","n","s","e"," ","a","n","d"," ","s","u","s","p","e","n","s","e","f","u","l","'",","," ","'","j","o","y","f","u","l"," ","a","n","d"," ","e","n","e","r","g","e","t","i","c","'",","," ","'","m","e","l","a","n","c","h","o","l","i","c"," ","a","n","d"," ","c","o","n","t","e","m","p","l","a","t","i","v","e","'">> ]   \* "The emotional feeling or mood the video should convey. Examples: 'peaceful and serene', 'tense and suspenseful', 'joyful and energetic', 'melancholic and contemplative'"

\* get_type_hints(VideoPrompt)
VideoPromptTypeHints ==
    [ subject |-> StrType,
      context |-> StrType,
      action |-> StrType,
      style |-> StrType,
      camera_movement |-> Optional(EnumType(CameraMovementClass)),
      camera_description |-> Optional(StrType),
      shot_type |-> Optional(EnumType(ShotTypeClass)),
      composition |-> Optional(StrType),
      lighting |-> Optional(StrType),
      ambiance |-> Optional(StrType),
      aspect_ratio |-> Optional(EnumType(AspectRatioClass)),
      duration_preference |-> Optional(LiteralType(<< <<"s","h","o","r","t">>, <<"m","e","d","i","u","m">>, <<"l","o","n","g">> >>)),   \* "short" "medium" "long"
      motion_intensity |-> Optional(LiteralType(<< <<"s","u","b","t","l","e">>, <<"m","o","d","e","r","a","t","e">>, <<"d","y","n","a","m","i","c">>, <<"i","n","t","e","n","s","e">> >>)),   \* "subtle" "moderate" "dynamic" "intense"
      negative_prompt |-> Optional(StrType),
      reference_style |-> Optional(StrType),
      transition_type |-> Optional(StrType),
      emotional_tone |-> Optional(StrType) ]

\* VideoPrompt.Config.json_schema_extra["example"], as (key, value) pairs in dict order
VideoPromptExample ==
    << << <<"s","u","b","j","e","c","t">>,   \* "subject"
          <<"a"," ","g","o","l","d","e","n"," ","r","e","t","r","i","e","v","e","r"," ","w","i","t","h"," ","a"," ","r","e","d"," ","c","o","l","l","a","r">> >>,   \* "a golden retriever with a red collar"
       << <<"c","o","n","t","e","x","t">>,   \* "context"
          <<"i","n"," ","a"," ","s","u","n","l","i","t"," ","m","e","a","d","o","w"," ","f","i","l","l","e","d"," ","w","i","t","h"," ","w","i","l","d","f","l","o","w","e","r","s"," ","d","u","r","i","n","g"," ","g","o","l","d","e","n"," ","h","o","u","r">> >>,   \* "in a sunlit meadow filled with wildflowers during golden hour"
       << <<"a","c","t","i","o","n">>,   \* "action"
          <<"r","u","n","s"," ","j","o","y","f","u","l","l","y"," ","t","o","w","a","r","d"," ","t","h","e"," ","c","a","m","e","r","a"," ","w","i","t","h"," ","t","o","n","g","u","e"," ","h","a","n","g","i","n","g"," ","o","u","t">> >>,   \* "runs joyfully toward the camera with tongue hanging out"
       << <<"s","t","y","l","e">>,   \* "style"
          <<"c","i","n","e","m","a","t","i","c"," ","d","o","c","u","m","e","n","t","a","r","y"," ","s","t","y","l","e"," ","w","i","t","h"," ","w","a","r","m"," ","c","o","l","o","r"," ","g","r","a","d","i","n","g">> >>,   \* "cinematic documentary style with warm color grading"
       << <<"c","a","m","e","r","a","_","m","o","v","e","m","e","n","t">>,   \* "camera_movement"
          <<"t","r","a","c","k","i","n","g">> >>,   \* "tracking"
       << <<"c","a","m","e","r","a","_","d","e","s","c","r","i","p","t","i","o","n">>,   \* "camera_description"
          <<"s","m","o","o","t","h"," ","t","r","a","c","k","i","n","g"," ","s","h","o","t"," ","f","o","l","l","o","w","i","n","g"," ","t","h","e"," ","d","o","g","'","s"," ","m","o","v","e","m","e","n","t">> >>,   \* "smooth tracking shot following the dog's movement"
       << <<"s","h","o","t","_","t","y","p","e">>,   \* "shot_type"
          <<"m","e","d","i","u","m","_","w","i","d","e","_","s","h","o","t">> >>,   \* "medium_wide_shot"
       << <<"l","i","g","h","t","i","n","g">>,   \* "lighting"
          <<"w","a","r","m"," ","g","o","l","d","e","n"," ","h","o","u","r"," ","s","u","n","l","i","g","h","t"," ","w","i","t","h"," ","s","o","f","t"," ","s","h","a","d","o","w","s">> >>,   \* "warm golden hour sunlight with soft shadows"
       << <<"a","m","b","i","a","n","c","e">>,   \* "ambiance"
          <<"p","e","a","c","e","f","u","l"," ","s","p","r","i","n","g"," ","a","f","t","e","r","n","o","o","n"," ","w","i","t","h"," ","g","e","n","t","l","e"," ","w","a","r","m"," ","t","o","n","e","s">> >>,   \* "peaceful spring afternoon with gentle warm tones"
       << <<"a","s","p","e","c","t","_","r","a","t","i","o">>,   \* "aspect_ratio"
          <<"1","6",":","9">> >>,   \* "16:9"
       << <<"m","o","t","i","o","n","_","i","n","t","e","n","s","i","t","y">>,   \* "motion_intensity"
          <<"d","y","n","a","m","i","c">> >>,   \* "dynamic"
       << <<"e","m","o","t","i","o","n","a","l","_","t","o","n","e">>,   \* "emotional_tone"
          <<"j","o","y","f","u","l"," ","a","n","d"," ","e","n","e","r","g","e","t","i","c">> >> >>   \* "joyful and energetic"

\* The str that names a field (the key of model_fields).
FieldNameStr ==
    [ subject |-> <<"s","u","b","j","e","c","t">>,   \* "subject"
      scene_description |-> <<"s","c","e","n","e","_","d","e","s","c","r","i","p","t","i","o","n">>,   \* "scene_description"
      photography_type |-> <<"p","h","o","t","o","g","r","a","p","h","y","_","t","y","p","e">>,   \* "photography_type"
      lens_type |-> <<"l","e","n","s","_","t","y","p","e">>,   \* "lens_type"
      focal_length |-> <<"f","o","c","a","l","_","l","e","n","g","t","h">>,   \* "focal_length"
      lighting_type |-> <<"l","i","g","h","t","i","n","g","_","t","y","p","e">>,   \* "lighting_type"
      lighting_description |-> <<"l","i","g","h","t","i","n","g","_","d","e","s","c","r","i","p","t","i","o","n">>,   \* "lighting_description"
      color_palette |-> <<"c","o","l","o","r","_","p","a","l","e","t","t","e">>,   \* "color_palette"
      shot_type |-> <<"s","h","o","t","_","t","y","p","e">>,   \* "shot_type"
      composition_technique |-> <<"c","o","m","p","o","s","i","t","i","o","n","_","t","e","c","h","n","i","q","u","e">>,   \* "composition_technique"
      artistic_style |-> <<"a","r","t","i","s","t","i","c","_","s","t","y","l","e">>,   \* "artistic_style"
      mood_and_emotion |-> <<"m","o","o","d","_","a","n","d","_","e","m","o","t","i","o","n">>,   \* "mood_and_emotion"
      aspect_ratio |-> <<"a","s","p","e","c","t","_","r","a","t","i","o">>,   \* "aspect_ratio"
      image_quality |-> <<"i","m","a","g","e","_","q","u","a","l","i","t","y">>,   \* "image_quality"
      camera_settings |-> <<"c","a","m","e","r","a","_","s","e","t","t","i","n","g","s">>,   \* "camera_settings"
      negative_prompt |-> <<"n","e","g","a","t","i","v","e","_","p","r","o","m","p","t">>,   \* "negative_prompt"
      style_reference |-> <<"s","t","y","l","e","_","r","e","f","e","r","e","n","c","e">>,   \* "style_reference"
      context |-> <<"c","o","n","t","e","x","t">>,   \* "context"
      action |-> <<"a","c","t","i","o","n">>,   \* "action"
      style |-> <<"s","t","y","l","e">>,   \* "style"
      camera_movement |-> <<"c","a","m","e","r","a","_","m","o","v","e","m","e","n","t">>,   \* "camera_movement"
      camera_description |-> <<"c","a","m","e","r","a","_","d","e","s","c","r","i","p","t","i","o","n">>,   \* "camera_description"
      composition |-> <<"c","o","m","p","o","s","i","t","i","o","n">>,   \* "composition"
      lighting |-> <<"l","i","g","h","t","i","n","g">>,   \* "lighting"
      ambiance |-> <<"a","m","b","i","a","n","c","e">>,   \* "ambiance"
      duration_preference |-> <<"d","u","r","a","t","i","o","n","_","p","r","e","f","e","r","e","n","c","e">>,   \* "duration_preference"
      motion_intensity |-> <<"m","o","t","i","o","n","_","i","n","t","e","n","s","i","t","y">>,   \* "motion_intensity"
      reference_style |-> <<"r","e","f","e","r","e","n","c","e","_","s","t","y","l","e">>,   \* "reference_style"
      transition_type |-> <<"t","r","a","n","s","i","t","i","o","n","_","t","y","p","e">>,   \* "transition_type"
      emotional_tone |-> <<"e","m","o","t","i","o","n","a","l","_","t","o","n","e">> ]   \* "emotional_tone"

-----------------------------------------------------------------------------
(* prompt/creation.py: get_enum_choices                                    *)

\* The outcome of a call that raises instead of returning a text: its one
\* line is no str.
Raised == << <<"Raised">> >>

\* inspect.getsource(enum_class).split("\n"); raises OSError when the
\* source file of the class cannot be read.
GetSourceLines(enum_class, source_available) ==
    IF source_available THEN enum_class.source ELSE Raised

\* Faulty variant: the member's line is sought by the bare value, so that a
\* member takes the comment of an earlier member whose value holds its own.
MemberComment_ValueAnywhere(value, source_lines) ==
    LET Holds(line) == Contains(line, value) /\ Contains(line, <<"#">>)
    IN  Bind({i \in 1..Len(source_lines) : Holds(source_lines[i])}, LAMBDA hits :
            IF hits = {} THEN <<>>
            ELSE Bind(source_lines[CHOOSE i \in hits : \A j \in hits : i <= j], LAMBDA line :
                     Bind(SubSeq(line, FindFrom(line, <<"#">>, 1) + 1, Len(line)), strip)))

\* The comment of the member's line: the first source line that holds
\* = "<value>" and a "#", cut after its first "#" and stripped: lines 23-28
MemberComment(value, source_lines) ==
    LET Holds(line) == Contains(line, <<"="," ","\"">> \o value \o <<"\"">>) /\ Contains(line, <<"#">>)   \* "= \"" "\""
    IN  Bind({i \in 1..Len(source_lines) : Holds(source_lines[i])}, LAMBDA hits :
            IF hits = {} THEN <<>>
            ELSE Bind(source_lines[CHOOSE i \in hits : \A j \in hits : i <= j], LAMBDA line :
                     Bind(SubSeq(line, FindFrom(line, <<"#">>, 1) + 1, Len(line)), strip)))

\* The line of one member when the source was read: lines 22-34
ChoiceLine(enum_class, value, source_lines) ==
    LET Comment(found) ==
            IF found = <<>>
            THEN <<"O","p","t","i","o","n"," ","f","o","r"," ">> \o Bind(replace_str(enum_class.name, <<"T","y","p","e">>, <<>>), lower)   \* "Option for " "Type"
            ELSE found
    IN  <<" "," ","U+2022"," ">> \o value \o <<":"," ">> \o Bind(MemberComment(value, source_lines), Comment)   \* "  U+2022 " ": "

\* The line of one member in the except branch: lines 35-38
FallbackLine(enum_class, value) ==
    <<" "," ","U+2022"," ">> \o value \o <<":"," ","O","p","t","i","o","n"," ","f","o","r"," ">> \o lower(enum_class.name)   \* "  U+2022 " ": Option for "

\* Faulty variant: the exception of inspect.getsource is not caught.
get_enum_choices_NoExcept(enum_class_arg, source_available) ==
    Bind(enum_class_arg, LAMBDA enum_class :
    Bind(GetSourceLines(enum_class, source_available), LAMBDA source_lines :
        IF source_lines = Raised THEN Raised
        ELSE JoinLines([i \in 1..Len(enum_class.members) |->
                 << ChoiceLine(enum_class, enum_class.members[i], source_lines) >>])))

\* def get_enum_choices(enum_class) -> str: lines 14-40
get_enum_choices(enum_class_arg, source_available) ==
    Bind(enum_class_arg, LAMBDA enum_class :
    Bind(GetSourceLines(enum_class, source_available), LAMBDA source_lines :
        JoinLines([i \in 1..Len(enum_class.members) |->
            IF source_lines = Raised
            THEN << FallbackLine(enum_class, enum_class.members[i]) >>
            ELSE << ChoiceLine(enum_class, enum_class.members[i], source_lines) >>])))

-----------------------------------------------------------------------------
(* prompt/creation.py: get_comprehensive_field_description                 *)

\* hasattr(obj, name) for an object modelled as the record of its attributes
hasattr(obj, name) == name \in DOMAIN obj

\* The FieldInfo pydantic 2 builds for Field(default, description=...,
\* min_length=..., max_length=...): the length bounds are kept in
\* FieldInfo.metadata (MinLen, MaxLen); the object has no attribute named
\* constraints, min_length or max_length.
FieldInfo(decl, description) ==
    [ description |-> description,
      default     |-> decl.default,
      required    |-> decl.required,
      metadata    |->
        IF decl.type = "str"
        THEN    Append1(decl.min_length > 0, [min_length |-> decl.min_length])
             \o Append1(decl.max_length > 0, [max_length |-> decl.max_length])
        ELSE <<>> ]

\* The bounds one object names: lines 105-108 and 111-114
BoundNotes(obj) ==
       Append1(hasattr(obj, "min_length") /\ obj.min_length # None /\ obj.min_length # 0,
               <<"m","i","n","i","m","u","m"," ">> \o str_int(obj.min_length) \o <<" ","c","h","a","r","a","c","t","e","r","s">>)   \* "minimum " " characters"
    \o Append1(hasattr(obj, "max_length") /\ obj.max_length # None /\ obj.max_length # 0,
               <<"m","a","x","i","m","u","m"," ">> \o str_int(obj.max_length) \o <<" ","c","h","a","r","a","c","t","e","r","s">>)   \* "maximum " " characters"

RECURSIVE ConstraintNotes(_)
ConstraintNotes(cs) ==
    IF cs = <<>> THEN <<>> ELSE BoundNotes(cs[1]) \o ConstraintNotes(Tail(cs))

\* constraints: lines 100-114
Constraints(field_info) ==
    IF hasattr(field_info, "constraints")
    THEN ConstraintNotes(field_info.constraints)
    ELSE BoundNotes(field_info)

\* The description and examples parts: lines 79-86
DescriptionParts(field_info) ==
    IF Truthy(field_info.description)
    THEN Bind(extract_examples_from_description(field_info.description), LAMBDA r :
             << << r.clean_description >> >>
             \o (IF r.examples # <<>>
                 THEN << << <<>>, <<"*","*","E","x","a","m","p","l","e","s",":","*","*">> >> >>   \* "**Examples:**"
                      \o [i \in 1..Len(r.examples) |-> << <<" "," ","-"," ">> \o r.examples[i] >>]   \* "  - "
                 ELSE <<>>))
    ELSE <<>>

\* The choices part: lines 89-97
ChoicesParts(field_type, source_available) ==
    LET Block(t) == << << <<>>, <<"*","*","A","v","a","i","l","a","b","l","e"," ","c","h","o","i","c","e","s",":","*","*">> >>,   \* "**Available choices:**"
                       get_enum_choices(t.class, source_available) >>
        NotNone(t) == ~(t.kind = "class" /\ t.name = <<"N","o","n","e","T","y","p","e">>)   \* "NoneType"
    IN  IF field_type.kind = "Union"
        THEN Bind(SelectSeq(field_type.args, NotNone)[1], LAMBDA actual_type :
                 IF actual_type.kind = "enum" THEN Block(actual_type) ELSE <<>>)
        ELSE IF field_type.kind = "enum" THEN Block(field_type)
        ELSE <<>>

\* The constraints part: lines 116-117
ConstraintsParts(field_info) ==
    Bind(Constraints(field_info), LAMBDA constraints :
        Append1(constraints # <<>>,
                << <<>>, <<"*","*","C","o","n","s","t","r","a","i","n","t","s",":","*","*"," ">> \o join(<<","," ">>, constraints) >>))   \* "**Constraints:** " ", "

\* def get_comprehensive_field_description(field_info, field_name, field_type):
\* lines 74-119
get_comprehensive_field_description(field_info_arg, field_type_arg, source_available) ==
    Bind(<<field_info_arg, field_type_arg>>, LAMBDA a :
        LET field_info == a[1]
            field_type == a[2]
        IN  JoinLines(   DescriptionParts(field_info)
                      \o ChoicesParts(field_type, source_available)
                      \o ConstraintsParts(field_info)))

-----------------------------------------------------------------------------
(* prompt/creation.py: the example section                                 *)

\* def get_schema_example(prompt_class) -> dict: lines 137-158.  pydantic
\* leaves the inner class Config on the model class, so the example is
\* read from Config.json_schema_extra.
get_schema_example(cls) ==
    IF cls = "ImagePrompt" THEN ImagePromptExample ELSE VideoPromptExample

\* Faulty variant: the values are written without escaping their double quotes.
format_example_section_Unescaped(example) ==
    LET ExampleLine(i) ==
            <<" "," ","\"">> \o example[i][1] \o <<"\"",":"," ","\"">>   \* "  \"" "\": \""
               \o example[i][2] \o <<"\"">>   \* "\""
               \o (IF i < Len(example) THEN <<",">> ELSE <<>>)
        json_content == [i \in 1..Len(example) |-> ExampleLine(i)]
    IN  IF example = <<>> THEN << <<>> >>
        ELSE FString(<< << <<>>,
                           <<>>,
                           <<"#","#"," ","W","o","r","k","i","n","g"," ","E","x","a","m","p","l","e">>,   \* "## Working Example"
                           <<"H","e","r","e","'","s"," ","a"," ","c","o","m","p","l","e","t","e"," ","e","x","a","m","p","l","e"," ","s","h","o","w","i","n","g"," ","p","r","o","f","e","s","s","i","o","n","a","l","-","q","u","a","l","i","t","y"," ","f","i","e","l","d"," ","c","o","m","p","l","e","t","i","o","n",":">>,   \* "Here's a complete example showing professional-quality field completion:"
                           <<>>,
                           <<"U+0060","U+0060","U+0060","j","s","o","n">>,   \* "U+0060U+0060U+0060json"
                           <<"{","{">>,   \* "{{"
                           <<>> >>,
                        json_content,
                        << <<>>,
                           <<"}","}">>,   \* "}}"
                           <<"U+0060","U+0060","U+0060">>,   \* "U+0060U+0060U+0060"
                           <<>>,
                           <<"U","s","e"," ","t","h","i","s"," ","a","s"," ","a"," ","r","e","f","e","r","e","n","c","e"," ","f","o","r"," ","t","h","e"," ","l","e","v","e","l"," ","o","f"," ","d","e","t","a","i","l"," ","a","n","d"," ","p","r","o","f","e","s","s","i","o","n","a","l"," ","t","e","r","m","i","n","o","l","o","g","y"," ","e","x","p","e","c","t","e","d",".">> >> >>)   \* "Use this as a reference for the level of detail and professional terminology expected."

\* def format_example_section(example: dict) -> str: lines 161-185
format_example_section(example) ==
    LET ExampleLine(i) ==
            <<" "," ","\"">> \o example[i][1] \o <<"\"",":"," ","\"">>   \* "  \"" "\": \""
               \o replace_str(example[i][2], <<"\"">>, <<"\\","\"">>) \o <<"\"">>   \* "\"" "\\\"" "\""
               \o (IF i < Len(example) THEN <<",">> ELSE <<>>)
        json_content == [i \in 1..Len(example) |-> ExampleLine(i)]
    IN  IF example = <<>> THEN << <<>> >>
        ELSE FString(<< << <<>>,
                           <<>>,
                           <<"#","#"," ","W","o","r","k","i","n","g"," ","E","x","a","m","p","l","e">>,   \* "## Working Example"
                           <<"H","e","r","e","'","s"," ","a"," ","c","o","m","p","l","e","t","e"," ","e","x","a","m","p","l","e"," ","s","h","o","w","i","n","g"," ","p","r","o","f","e","s","s","i","o","n","a","l","-","q","u","a","l","i","t","y"," ","f","i","e","l","d"," ","c","o","m","p","l","e","t","i","o","n",":">>,   \* "Here's a complete example showing professional-quality field completion:"
                           <<>>,
                           <<"U+0060","U+0060","U+0060","j","s","o","n">>,   \* "U+0060U+0060U+0060json"
                           <<"{","{">>,   \* "{{"
                           <<>> >>,
                        json_content,
                        << <<>>,
                           <<"}","}">>,   \* "}}"
                           <<"U+0060","U+0060","U+0060">>,   \* "U+0060U+0060U+0060"
                           <<>>,
                           <<"U","s","e"," ","t","h","i","s"," ","a","s"," ","a"," ","r","e","f","e","r","e","n","c","e"," ","f","o","r"," ","t","h","e"," ","l","e","v","e","l"," ","o","f"," ","d","e","t","a","i","l"," ","a","n","d"," ","p","r","o","f","e","s","s","i","o","n","a","l"," ","t","e","r","m","i","n","o","l","o","g","y"," ","e","x","p","e","c","t","e","d",".">> >> >>)   \* "Use this as a reference for the level of detail and professional terminology expected."

-----------------------------------------------------------------------------
(* prompt/creation.py: the literal texts of the two template builders      *)

\* technical_guidance in create_image_prompt_template: creation.py lines 257-285
ImageTechnicalGuidance ==
    << <<>>,
       <<"#","#"," ","P","r","o","f","e","s","s","i","o","n","a","l"," ","I","m","a","g","e"," ","G","e","n","e","r","a","t","i","o","n"," ","B","e","s","t"," ","P","r","a","c","t","i","c","e","s">>,   \* "## Professional Image Generation Best Practices"
       <<>>,
       <<"#","#","#"," ","C","o","r","e"," ","S","t","r","u","c","t","u","r","e"," ","(","S","u","b","j","e","c","t"," ","+"," ","C","o","n","t","e","x","t"," ","+"," ","S","t","y","l","e",")">>,   \* "### Core Structure (Subject + Context + Style)"
       <<"-"," ","*","*","S","u","b","j","e","c","t","*","*",":"," ","T","h","e"," ","m","a","i","n"," ","o","b","j","e","c","t",","," ","p","e","r","s","o","n",","," ","a","n","i","m","a","l",","," ","o","r"," ","s","c","e","n","e","r","y"," ","(","b","e"," ","s","p","e","c","i","f","i","c"," ","a","n","d"," ","d","e","s","c","r","i","p","t","i","v","e",")">>,   \* "- **Subject**: The main object, person, animal, or scenery (be specific and descriptive)"
       <<"-"," ","*","*","C","o","n","t","e","x","t","*","*",":"," ","B","a","c","k","g","r","o","u","n","d"," ","a","n","d"," ","e","n","v","i","r","o","n","m","e","n","t"," ","w","h","e","r","e"," ","s","u","b","j","e","c","t"," ","i","s"," ","p","l","a","c","e","d">>,   \* "- **Context**: Background and environment where subject is placed"
       <<"-"," ","*","*","S","t","y","l","e","*","*",":"," ","G","e","n","e","r","a","l"," ","(","p","a","i","n","t","i","n","g",","," ","p","h","o","t","o","g","r","a","p","h",")"," ","o","r"," ","s","p","e","c","i","f","i","c"," ","(","p","a","s","t","e","l"," ","p","a","i","n","t","i","n","g",","," ","f","i","l","m"," ","n","o","i","r",")">>,   \* "- **Style**: General (painting, photograph) or specific (pastel painting, film noir)"
       <<>>,
       <<"#","#","#"," ","P","h","o","t","o","g","r","a","p","h","y"," ","Q","u","a","l","i","t","y"," ","M","o","d","i","f","i","e","r","s">>,   \* "### Photography Quality Modifiers"
       <<"-"," ","*","*","G","e","n","e","r","a","l","*","*",":"," ","h","i","g","h","-","q","u","a","l","i","t","y",","," ","b","e","a","u","t","i","f","u","l",","," ","s","t","y","l","i","z","e","d",","," ","p","r","o","f","e","s","s","i","o","n","a","l",","," ","d","e","t","a","i","l","e","d">>,   \* "- **General**: high-quality, beautiful, stylized, professional, detailed"
       <<"-"," ","*","*","T","e","c","h","n","i","c","a","l","*","*",":"," ","4","K",","," ","H","D","R",","," ","s","t","u","d","i","o"," ","p","h","o","t","o",","," ","s","h","a","r","p"," ","f","o","c","u","s",","," ","b","o","k","e","h",","," ","p","o","r","t","r","a","i","t"," ","m","o","d","e">>,   \* "- **Technical**: 4K, HDR, studio photo, sharp focus, bokeh, portrait mode"
       <<"-"," ","*","*","A","r","t","i","s","t","i","c","*","*",":"," ","b","y"," ","a"," ","p","r","o","f","e","s","s","i","o","n","a","l"," ","p","h","o","t","o","g","r","a","p","h","e","r",","," ","a","w","a","r","d","-","w","i","n","n","i","n","g"," ","p","h","o","t","o","g","r","a","p","h","y">>,   \* "- **Artistic**: by a professional photographer, award-winning photography"
       <<>>,
       <<"#","#","#"," ","P","h","o","t","o","g","r","a","p","h","y"," ","T","e","c","h","n","i","c","a","l"," ","S","p","e","c","i","f","i","c","a","t","i","o","n","s">>,   \* "### Photography Technical Specifications"
       <<"*","*","F","o","r"," ","P","o","r","t","r","a","i","t","s","*","*",":"," ","2","4","-","3","5","m","m"," ","l","e","n","s",","," ","s","h","a","l","l","o","w"," ","d","e","p","t","h"," ","o","f"," ","f","i","e","l","d",","," ","p","r","i","m","e","/","z","o","o","m"," ","l","e","n","s",","," ","f","i","l","m"," ","n","o","i","r"," ","s","t","y","l","e">>,   \* "**For Portraits**: 24-35mm lens, shallow depth of field, prime/zoom lens, film noir style"
       <<"*","*","F","o","r"," ","O","b","j","e","c","t","s","/","S","t","i","l","l"," ","L","i","f","e","*","*",":"," ","6","0","-","1","0","5","m","m"," ","m","a","c","r","o"," ","l","e","n","s",","," ","h","i","g","h"," ","d","e","t","a","i","l",","," ","p","r","e","c","i","s","e"," ","f","o","c","u","s","i","n","g",","," ","c","o","n","t","r","o","l","l","e","d"," ","l","i","g","h","t","i","n","g">>,   \* "**For Objects/Still Life**: 60-105mm macro lens, high detail, precise focusing, controlled lighting"
       <<"*","*","F","o","r"," ","M","o","t","i","o","n","*","*",":"," ","1","0","0","-","4","0","0","m","m"," ","t","e","l","e","p","h","o","t","o",","," ","f","a","s","t"," ","s","h","u","t","t","e","r"," ","s","p","e","e","d",","," ","a","c","t","i","o","n"," ","t","r","a","c","k","i","n","g">>,   \* "**For Motion**: 100-400mm telephoto, fast shutter speed, action tracking"
       <<"*","*","F","o","r"," ","L","a","n","d","s","c","a","p","e","s","*","*",":"," ","1","0","-","2","4","m","m"," ","w","i","d","e","-","a","n","g","l","e",","," ","l","o","n","g"," ","e","x","p","o","s","u","r","e",","," ","s","h","a","r","p"," ","f","o","c","u","s"," ","t","h","r","o","u","g","h","o","u","t">>,   \* "**For Landscapes**: 10-24mm wide-angle, long exposure, sharp focus throughout"
       <<>>,
       <<"#","#","#"," ","L","i","g","h","t","i","n","g"," ","M","o","d","i","f","i","e","r","s">>,   \* "### Lighting Modifiers"
       <<"-"," ","*","*","N","a","t","u","r","a","l","*","*",":"," ","s","u","n","l","i","g","h","t",","," ","g","o","l","d","e","n"," ","h","o","u","r",","," ","b","l","u","e"," ","h","o","u","r",","," ","a","m","b","i","e","n","t"," ","l","i","g","h","t","i","n","g">>,   \* "- **Natural**: sunlight, golden hour, blue hour, ambient lighting"
       <<"-"," ","*","*","A","r","t","i","f","i","c","i","a","l","*","*",":"," ","s","t","u","d","i","o"," ","l","i","g","h","t","i","n","g",","," ","s","o","f","t"," ","b","o","x",","," ","h","a","r","d"," ","l","i","g","h","t",","," ","r","i","n","g"," ","l","i","g","h","t">>,   \* "- **Artificial**: studio lighting, soft box, hard light, ring light"
       <<"-"," ","*","*","C","r","e","a","t","i","v","e","*","*",":"," ","b","a","c","k","l","i","g","h","t","i","n","g",","," ","s","i","d","e"," ","l","i","g","h","t","i","n","g",","," ","c","a","n","d","l","e","l","i","g","h","t",","," ","n","e","o","n"," ","l","i","g","h","t","i","n","g">>,   \* "- **Creative**: backlighting, side lighting, candlelight, neon lighting"
       <<>>,
       <<"#","#","#"," ","C","a","m","e","r","a"," ","S","e","t","t","i","n","g","s"," ","f","o","r"," ","P","h","o","t","o","r","e","a","l","i","s","m">>,   \* "### Camera Settings for Photorealism"
       <<"I","n","c","l","u","d","e"," ","s","p","e","c","i","f","i","c"," ","t","e","c","h","n","i","c","a","l"," ","s","e","t","t","i","n","g","s"," ","l","i","k","e",":">>,   \* "Include specific technical settings like:"
       <<"-"," ","f","/","1",".","4"," ","(","s","h","a","l","l","o","w"," ","d","e","p","t","h"," ","o","f"," ","f","i","e","l","d",")",","," ","f","/","8"," ","(","s","h","a","r","p"," ","f","o","c","u","s"," ","t","h","r","o","u","g","h","o","u","t",")">>,   \* "- f/1.4 (shallow depth of field), f/8 (sharp focus throughout)"
       <<"-"," ","1","/","5","0","0","s"," ","(","f","a","s","t"," ","s","h","u","t","t","e","r",")",","," ","I","S","O"," ","1","0","0"," ","(","m","i","n","i","m","a","l"," ","n","o","i","s","e",")">>,   \* "- 1/500s (fast shutter), ISO 100 (minimal noise)"
       <<"-"," ","8","5","m","m"," ","p","o","r","t","r","a","i","t"," ","l","e","n","s",","," ","3","5","m","m"," ","s","t","r","e","e","t"," ","p","h","o","t","o","g","r","a","p","h","y">> >>   \* "- 85mm portrait lens, 35mm street photography"

\* negative_prompt_guidance in create_image_prompt_template: creation.py lines 287-290
ImageNegativePromptGuidance ==
    << <<>>,
       <<"#","#","#"," ","N","e","g","a","t","i","v","e"," ","P","r","o","m","p","t","s">>,   \* "### Negative Prompts"
       <<"U+2705"," ","*","*","D","o","*","*",":"," ","D","e","s","c","r","i","b","e"," ","w","h","a","t"," ","y","o","u"," ","d","o","n","'","t"," ","w","a","n","t"," ","p","l","a","i","n","l","y"," ","(","e",".","g",".",","," ","\"","b","l","u","r","r","y",","," ","o","v","e","r","e","x","p","o","s","e","d",","," ","d","i","s","t","o","r","t","e","d","\"",")">>,   \* "U+2705 **Do**: Describe what you don't want plainly (e.g., \"blurry, overexposed, distorted\")"
       <<"U+274C"," ","*","*","D","o","n","'","t","*","*",":"," ","U","s","e"," ","i","n","s","t","r","u","c","t","i","v","e"," ","l","a","n","g","u","a","g","e"," ","(","\"","n","o","\"",","," ","\"","d","o","n","'","t"," ","s","h","o","w","\"",","," ","\"","a","v","o","i","d","\"",")">> >>   \* "U+274C **Don't**: Use instructive language (\"no\", \"don't show\", \"avoid\")"

\* system_content in create_image_prompt_template: creation.py lines 293-342
ImageSystemContent(required_section, optional_fields, technical_guidance, negative_prompt_guidance, example_section) ==
    FString(<< << <<"Y","o","u"," ","a","r","e"," ","a","n"," ","e","x","p","e","r","t"," ","i","m","a","g","e"," ","g","e","n","e","r","a","t","i","o","n"," ","p","r","o","m","p","t"," ","e","n","g","i","n","e","e","r"," ","s","p","e","c","i","a","l","i","z","i","n","g"," ","i","n"," ","A","I","-","p","o","w","e","r","e","d"," ","c","o","n","t","e","n","t"," ","c","r","e","a","t","i","o","n","."," ","T","r","a","n","s","f","o","r","m"," ","u","s","e","r"," ","r","e","q","u","e","s","t","s"," ","i","n","t","o"," ","p","r","o","f","e","s","s","i","o","n","a","l","-","q","u","a","l","i","t","y"," ","p","r","o","m","p","t","s"," ","f","o","l","l","o","w","i","n","g"," ","i","n","d","u","s","t","r","y"," ","s","t","a","n","d","a","r","d","s"," ","a","n","d"," ","b","e","s","t"," ","p","r","a","c","t","i","c","e","s",".">>,   \* "You are an expert image generation prompt engineer specializing in AI-powered content creation. Transform user requests into professional-quality prompts following industry standards and best practices."
          <<>>,
          <<"#","#"," ","Y","o","u","r"," ","M","i","s","s","i","o","n">>,   \* "## Your Mission"
          <<"A","n","a","l","y","z","e"," ","u","s","e","r"," ","i","n","p","u","t"," ","a","n","d"," ","c","r","e","a","t","e"," ","a"," ","c","o","m","p","r","e","h","e","n","s","i","v","e"," ">> >>,   \* "Analyze user input and create a comprehensive "
               << <<"I","m","a","g","e","P","r","o","m","p","t">> >>,   \* "ImagePrompt"
               << <<" ","s","t","r","u","c","t","u","r","e","."," ","A","p","p","l","y"," ","p","r","o","f","e","s","s","i","o","n","a","l","-","l","e","v","e","l"," ","d","e","t","a","i","l",","," ","t","e","c","h","n","i","c","a","l"," ","a","c","c","u","r","a","c","y",","," ","a","n","d"," ","c","r","e","a","t","i","v","e"," ","e","n","h","a","n","c","e","m","e","n","t"," ","b","a","s","e","d"," ","o","n"," ","m","o","d","e","r","n"," ","A","I"," ","g","e","n","e","r","a","t","i","o","n"," ","c","a","p","a","b","i","l","i","t","i","e","s",".">>,   \* " structure. Apply professional-level detail, technical accuracy, and creative enhancement based on modern AI generation capabilities."
          <<>>,
          <<>> >>,
               required_section,
               << <<>>,
          <<>>,
          <<"#","#"," ","O","p","t","i","o","n","a","l"," ","E","n","h","a","n","c","e","m","e","n","t"," ","F","i","e","l","d","s">>,   \* "## Optional Enhancement Fields"
          <<"U","s","e"," ","t","h","e","s","e"," ","f","i","e","l","d","s"," ","t","o"," ","e","l","e","v","a","t","e"," ","p","r","o","m","p","t"," ","q","u","a","l","i","t","y"," ","a","n","d"," ","m","a","t","c","h"," ","u","s","e","r"," ","i","n","t","e","n","t",":">>,   \* "Use these fields to elevate prompt quality and match user intent:"
          <<>>,
          <<>> >>,
               JoinLines(optional_fields),
               << <<>>,
          <<>>,
          <<>> >>,
               technical_guidance,
               << <<>>,
          <<>>,
          <<>> >>,
               negative_prompt_guidance,
               << <<>>,
          <<>>,
          <<"#","#"," ","P","r","o","f","e","s","s","i","o","n","a","l"," ","G","u","i","d","e","l","i","n","e","s">>,   \* "## Professional Guidelines"
          <<>>,
          <<"#","#","#"," ","1","."," ","D","e","s","c","r","i","p","t","i","v","e"," ","P","r","e","c","i","s","i","o","n"," ","(","I","n","d","u","s","t","r","y"," ","S","t","a","n","d","a","r","d",")">>,   \* "### 1. Descriptive Precision (Industry Standard)"
          <<"-"," ","U","s","e"," ","d","e","t","a","i","l","e","d"," ","a","d","j","e","c","t","i","v","e","s"," ","a","n","d"," ","a","d","v","e","r","b","s"," ","f","o","r"," ","c","l","e","a","r"," ","A","I"," ","u","n","d","e","r","s","t","a","n","d","i","n","g">>,   \* "- Use detailed adjectives and adverbs for clear AI understanding"
          <<"-"," ","I","n","c","l","u","d","e"," ","b","a","c","k","g","r","o","u","n","d"," ","c","o","n","t","e","x","t"," ","w","h","e","n"," ","n","e","c","e","s","s","a","r","y">>,   \* "- Include background context when necessary"
          <<"-"," ","R","e","f","e","r","e","n","c","e"," ","s","p","e","c","i","f","i","c"," ","a","r","t","i","s","t","s","/","s","t","y","l","e","s"," ","f","o","r"," ","p","a","r","t","i","c","u","l","a","r"," ","a","e","s","t","h","e","t","i","c","s">>,   \* "- Reference specific artists/styles for particular aesthetics"
          <<"-"," ","B","e"," ","s","p","e","c","i","f","i","c"," ","r","a","t","h","e","r"," ","t","h","a","n"," ","g","e","n","e","r","i","c"," ","(","\"","c","o","n","f","i","d","e","n","t"," ","b","u","s","i","n","e","s","s"," ","e","x","e","c","u","t","i","v","e","\""," ","v","s"," ","\"","n","i","c","e"," ","p","e","r","s","o","n","\"",")">>,   \* "- Be specific rather than generic (\"confident business executive\" vs \"nice person\")"
          <<>>,
          <<"#","#","#"," ","2","."," ","T","e","c","h","n","i","c","a","l"," ","E","x","c","e","l","l","e","n","c","e">>,   \* "### 2. Technical Excellence"
          <<"-"," ","A","p","p","l","y"," ","i","n","d","u","s","t","r","y","-","s","t","a","n","d","a","r","d"," ","i","m","a","g","e"," ","p","r","o","d","u","c","t","i","o","n"," ","t","e","c","h","n","i","q","u","e","s">>,   \* "- Apply industry-standard image production techniques"
          <<"-"," ","U","s","e"," ","p","r","o","p","e","r"," ","t","e","r","m","i","n","o","l","o","g","y"," ","f","o","r"," ","c","a","m","e","r","a",","," ","l","i","g","h","t","i","n","g",","," ","a","n","d"," ","c","o","m","p","o","s","i","t","i","o","n">>,   \* "- Use proper terminology for camera, lighting, and composition"
          <<"-"," ","C","o","n","s","i","d","e","r"," ","m","o","d","e","r","n"," ","A","I"," ","g","e","n","e","r","a","t","i","o","n"," ","c","a","p","a","b","i","l","i","t","i","e","s"," ","a","n","d"," ","l","i","m","i","t","a","t","i","o","n","s">>,   \* "- Consider modern AI generation capabilities and limitations"
          <<"-"," ","I","n","c","l","u","d","e"," ","r","e","l","e","v","a","n","t"," ","t","e","c","h","n","i","c","a","l"," ","s","p","e","c","i","f","i","c","a","t","i","o","n","s">>,   \* "- Include relevant technical specifications"
          <<>>,
          <<"#","#","#"," ","3","."," ","C","r","e","a","t","i","v","e"," ","E","n","h","a","n","c","e","m","e","n","t">>,   \* "### 3. Creative Enhancement"
          <<"-"," ","E","x","p","a","n","d"," ","u","s","e","r"," ","i","n","p","u","t"," ","w","i","t","h"," ","p","r","o","f","e","s","s","i","o","n","a","l"," ","a","r","t","i","s","t","i","c"," ","d","e","t","a","i","l","s">>,   \* "- Expand user input with professional artistic details"
          <<"-"," ","A","d","d"," ","a","t","m","o","s","p","h","e","r","i","c"," ","a","n","d"," ","s","t","y","l","i","s","t","i","c"," ","e","l","e","m","e","n","t","s"," ","f","o","l","l","o","w","i","n","g"," ","i","n","d","u","s","t","r","y"," ","g","u","i","d","e","l","i","n","e","s">>,   \* "- Add atmospheric and stylistic elements following industry guidelines"
          <<"-"," ","B","a","l","a","n","c","e"," ","c","r","e","a","t","i","v","e"," ","v","i","s","i","o","n"," ","w","i","t","h"," ","t","e","c","h","n","i","c","a","l"," ","f","e","a","s","i","b","i","l","i","t","y">>,   \* "- Balance creative vision with technical feasibility"
          <<"-"," ","C","o","n","s","i","d","e","r"," ","m","o","o","d",","," ","e","m","o","t","i","o","n",","," ","a","n","d"," ","v","i","s","u","a","l"," ","i","m","p","a","c","t">>,   \* "- Consider mood, emotion, and visual impact"
          <<>>,
          <<"#","#","#"," ","4","."," ","S","t","r","u","c","t","u","r","e","d"," ","A","p","p","r","o","a","c","h">>,   \* "### 4. Structured Approach"
          <<"-"," ","E","n","s","u","r","e"," ","a","l","l"," ","f","i","e","l","d","s"," ","w","o","r","k"," ","h","a","r","m","o","n","i","o","u","s","l","y"," ","t","o","g","e","t","h","e","r">>,   \* "- Ensure all fields work harmoniously together"
          <<"-"," ","M","a","i","n","t","a","i","n"," ","c","o","n","s","i","s","t","e","n","c","y"," ","i","n"," ","s","t","y","l","e"," ","a","n","d"," ","t","o","n","e"," ","a","c","r","o","s","s"," ","f","i","e","l","d","s">>,   \* "- Maintain consistency in style and tone across fields"
          <<"-"," ","F","o","l","l","o","w"," ","t","h","e"," ","c","o","r","e"," ","s","t","r","u","c","t","u","r","e",":"," ","S","u","b","j","e","c","t"," ","+"," ","C","o","n","t","e","x","t"," ","+"," ","S","t","y","l","e"," ","+"," ","T","e","c","h","n","i","c","a","l"," ","s","p","e","c","s">>,   \* "- Follow the core structure: Subject + Context + Style + Technical specs"
          <<"-"," ","O","p","t","i","m","i","z","e"," ","f","o","r"," ","c","u","r","r","e","n","t"," ","A","I"," ","g","e","n","e","r","a","t","i","o","n"," ","c","a","p","a","b","i","l","i","t","i","e","s">>,   \* "- Optimize for current AI generation capabilities"
          <<>>,
          <<"#","#","#"," ","5","."," ","Q","u","a","l","i","t","y"," ","O","p","t","i","m","i","z","a","t","i","o","n">>,   \* "### 5. Quality Optimization"
          <<"-"," ","C","o","n","s","i","d","e","r"," ","i","n","t","e","n","d","e","d"," ","u","s","e"," ","c","a","s","e"," ","a","n","d"," ","a","u","d","i","e","n","c","e">>,   \* "- Consider intended use case and audience"
          <<"-"," ","I","n","c","l","u","d","e"," ","a","p","p","r","o","p","r","i","a","t","e"," ","q","u","a","l","i","t","y"," ","m","o","d","i","f","i","e","r","s">>,   \* "- Include appropriate quality modifiers"
          <<"-"," ","A","p","p","l","y"," ","s","u","i","t","a","b","l","e"," ","a","s","p","e","c","t"," ","r","a","t","i","o","s"," ","a","n","d"," ","t","e","c","h","n","i","c","a","l"," ","s","e","t","t","i","n","g","s">>,   \* "- Apply suitable aspect ratios and technical settings"
          <<"-"," ","B","a","l","a","n","c","e"," ","d","e","t","a","i","l"," ","w","i","t","h"," ","c","l","a","r","i","t","y"," ","(","a","v","o","i","d"," ","o","v","e","r","-","c","o","m","p","l","e","x","i","t","y",")">> >>,   \* "- Balance detail with clarity (avoid over-complexity)"
               example_section,
               << <<>>,
          <<>>,
          <<"#","#"," ","R","e","s","p","o","n","s","e"," ","R","e","q","u","i","r","e","m","e","n","t","s">>,   \* "## Response Requirements"
          <<"R","e","t","u","r","n"," ","a"," ","v","a","l","i","d"," ","J","S","O","N"," ","o","b","j","e","c","t"," ","m","a","t","c","h","i","n","g"," ","t","h","e"," ">> >>,   \* "Return a valid JSON object matching the "
               << <<"I","m","a","g","e","P","r","o","m","p","t">> >>,   \* "ImagePrompt"
               << <<" ","s","t","r","u","c","t","u","r","e"," ","e","x","a","c","t","l","y","."," ","I","n","c","l","u","d","e"," ","a","l","l"," ","r","e","q","u","i","r","e","d"," ","f","i","e","l","d","s"," ","a","n","d"," ","r","e","l","e","v","a","n","t"," ","o","p","t","i","o","n","a","l"," ","f","i","e","l","d","s"," ","b","a","s","e","d"," ","o","n"," ","u","s","e","r"," ","r","e","q","u","e","s","t",","," ","c","r","e","a","t","i","v","e"," ","v","i","s","i","o","n",","," ","a","n","d"," ","i","n","d","u","s","t","r","y"," ","b","e","s","t"," ","p","r","a","c","t","i","c","e","s",".">> >> >>)   \* " structure exactly. Include all required fields and relevant optional fields based on user request, creative vision, and industry best practices."

\* technical_guidance in create_video_prompt_template: creation.py lines 411-443
VideoTechnicalGuidance ==
    << <<>>,
       <<"#","#"," ","P","r","o","f","e","s","s","i","o","n","a","l"," ","V","i","d","e","o"," ","G","e","n","e","r","a","t","i","o","n"," ","B","e","s","t"," ","P","r","a","c","t","i","c","e","s">>,   \* "## Professional Video Generation Best Practices"
       <<>>,
       <<"#","#","#"," ","E","s","s","e","n","t","i","a","l"," ","E","l","e","m","e","n","t","s"," ","f","o","r"," ","V","i","d","e","o"," ","G","e","n","e","r","a","t","i","o","n">>,   \* "### Essential Elements for Video Generation"
       <<"1","."," ","*","*","S","u","b","j","e","c","t","*","*",":"," ","O","b","j","e","c","t",","," ","p","e","r","s","o","n",","," ","a","n","i","m","a","l",","," ","o","r"," ","s","c","e","n","e","r","y"," ","y","o","u"," ","w","a","n","t">>,   \* "1. **Subject**: Object, person, animal, or scenery you want"
       <<"2","."," ","*","*","C","o","n","t","e","x","t","*","*",":"," ","B","a","c","k","g","r","o","u","n","d","/","e","n","v","i","r","o","n","m","e","n","t"," ","w","h","e","r","e"," ","s","u","b","j","e","c","t"," ","i","s"," ","p","l","a","c","e","d"," "," ">>,   \* "2. **Context**: Background/environment where subject is placed  "
       <<"3","."," ","*","*","A","c","t","i","o","n","*","*",":"," ","W","h","a","t"," ","t","h","e"," ","s","u","b","j","e","c","t"," ","i","s"," ","d","o","i","n","g"," ","(","w","a","l","k","i","n","g",","," ","r","u","n","n","i","n","g",","," ","t","u","r","n","i","n","g"," ","h","e","a","d",")">>,   \* "3. **Action**: What the subject is doing (walking, running, turning head)"
       <<"4","."," ","*","*","S","t","y","l","e","*","*",":"," ","F","i","l","m"," ","s","t","y","l","e"," ","(","h","o","r","r","o","r"," ","f","i","l","m",","," ","f","i","l","m"," ","n","o","i","r",")"," ","o","r"," ","a","n","i","m","a","t","i","o","n"," ","(","c","a","r","t","o","o","n"," ","s","t","y","l","e",")">>,   \* "4. **Style**: Film style (horror film, film noir) or animation (cartoon style)"
       <<"5","."," ","*","*","C","a","m","e","r","a"," ","M","o","t","i","o","n","*","*",":"," ","A","e","r","i","a","l"," ","v","i","e","w",","," ","e","y","e","-","l","e","v","e","l",","," ","t","r","a","c","k","i","n","g"," ","s","h","o","t",","," ","d","o","l","l","y"," ","m","o","v","e","m","e","n","t">>,   \* "5. **Camera Motion**: Aerial view, eye-level, tracking shot, dolly movement"
       <<"6","."," ","*","*","C","o","m","p","o","s","i","t","i","o","n","*","*",":"," ","W","i","d","e"," ","s","h","o","t",","," ","c","l","o","s","e","-","u","p",","," ","e","x","t","r","e","m","e"," ","c","l","o","s","e","-","u","p"," ","f","r","a","m","i","n","g">>,   \* "6. **Composition**: Wide shot, close-up, extreme close-up framing"
       <<"7","."," ","*","*","A","m","b","i","a","n","c","e","*","*",":"," ","C","o","l","o","r","/","l","i","g","h","t","i","n","g"," ","(","b","l","u","e"," ","t","o","n","e","s",","," ","w","a","r","m"," ","t","o","n","e","s",","," ","g","o","l","d","e","n"," ","h","o","u","r",")">>,   \* "7. **Ambiance**: Color/lighting (blue tones, warm tones, golden hour)"
       <<>>,
       <<"#","#","#"," ","V","i","d","e","o"," ","G","e","n","e","r","a","t","i","o","n"," ","P","r","i","n","c","i","p","l","e","s">>,   \* "### Video Generation Principles"
       <<"*","*","P","o","w","e","r"," ","o","f"," ","S","i","m","p","l","i","c","i","t","y","*","*",":"," ","O","f","t","e","n"," ","l","e","s","s"," ","i","s"," ","m","o","r","e"," ","-"," ","l","e","t"," ","A","I"," ","f","i","l","l"," ","i","n"," ","c","o","n","t","e","x","t","u","a","l","l","y"," ","a","p","p","r","o","p","r","i","a","t","e"," ","d","e","t","a","i","l","s">>,   \* "**Power of Simplicity**: Often less is more - let AI fill in contextually appropriate details"
       <<"*","*","C","a","m","e","r","a"," ","M","o","v","e","m","e","n","t","s","*","*",":"," ","s","t","a","t","i","c",","," ","p","a","n",","," ","t","i","l","t",","," ","z","o","o","m"," ","i","n","/","o","u","t",","," ","d","o","l","l","y",","," ","t","r","a","c","k","i","n","g",","," ","h","a","n","d","h","e","l","d",","," ","d","r","o","n","e",","," ","c","r","a","n","e">>,   \* "**Camera Movements**: static, pan, tilt, zoom in/out, dolly, tracking, handheld, drone, crane"
       <<"*","*","Q","u","a","l","i","t","y","*","*",":"," ","S","m","o","o","t","h"," ","m","o","t","i","o","n",","," ","c","i","n","e","m","a","t","i","c"," ","l","o","o","k",","," ","s","p","e","c","i","f","i","c"," ","f","i","l","m"," ","r","e","f","e","r","e","n","c","e","s">>,   \* "**Quality**: Smooth motion, cinematic look, specific film references"
       <<>>,
       <<"#","#","#"," ","C","a","m","e","r","a"," ","S","p","e","c","i","f","i","c","a","t","i","o","n","s"," ","f","o","r"," ","V","i","d","e","o">>,   \* "### Camera Specifications for Video"
       <<"-"," ","*","*","P","O","V"," ","s","h","o","t","s","*","*",":"," ","F","i","r","s","t","-","p","e","r","s","o","n"," ","p","e","r","s","p","e","c","t","i","v","e",","," ","i","m","m","e","r","s","i","v","e"," ","e","x","p","e","r","i","e","n","c","e">>,   \* "- **POV shots**: First-person perspective, immersive experience"
       <<"-"," ","*","*","A","e","r","i","a","l"," ","v","i","e","w","s","*","*",":"," ","D","r","o","n","e"," ","s","h","o","t","s",","," ","b","i","r","d","'","s"," ","e","y","e"," ","p","e","r","s","p","e","c","t","i","v","e",","," ","t","r","a","c","k","i","n","g"," ","d","r","o","n","e"," ","v","i","e","w">>,   \* "- **Aerial views**: Drone shots, bird's eye perspective, tracking drone view"
       <<"-"," ","*","*","T","r","a","c","k","i","n","g"," ","s","h","o","t","s","*","*",":"," ","F","o","l","l","o","w"," ","s","u","b","j","e","c","t"," ","m","o","v","e","m","e","n","t",","," ","s","m","o","o","t","h"," ","c","a","m","e","r","a"," ","m","o","t","i","o","n">>,   \* "- **Tracking shots**: Follow subject movement, smooth camera motion"
       <<"-"," ","*","*","C","o","m","p","o","s","i","t","i","o","n","*","*",":"," ","W","i","d","e"," ","s","h","o","t"," ","(","f","u","l","l"," ","e","n","v","i","r","o","n","m","e","n","t",")",","," ","c","l","o","s","e","-","u","p"," ","(","f","a","c","i","a","l"," ","d","e","t","a","i","l","s",")",","," ","e","x","t","r","e","m","e"," ","c","l","o","s","e","-","u","p"," ","(","s","p","e","c","i","f","i","c"," ","d","e","t","a","i","l","s",")">>,   \* "- **Composition**: Wide shot (full environment), close-up (facial details), extreme close-up (specific details)"
       <<>>,
       <<"#","#","#"," ","A","m","b","i","a","n","c","e"," ","&"," ","C","o","l","o","r"," ","P","a","l","e","t","t","e","s">>,   \* "### Ambiance & Color Palettes"
       <<"-"," ","*","*","W","a","r","m"," ","t","o","n","e","s","*","*",":"," ","m","u","t","e","d"," ","o","r","a","n","g","e"," ","w","a","r","m"," ","t","o","n","e","s",","," ","g","o","l","d","e","n"," ","h","o","u","r",","," ","s","u","n","r","i","s","e","/","s","u","n","s","e","t">>,   \* "- **Warm tones**: muted orange warm tones, golden hour, sunrise/sunset"
       <<"-"," ","*","*","C","o","o","l"," ","t","o","n","e","s","*","*",":"," ","p","a","s","t","e","l"," ","b","l","u","e"," ","a","n","d"," ","p","i","n","k"," ","t","o","n","e","s",","," ","c","o","o","l"," ","b","l","u","e"," ","t","o","n","e","s",","," ","n","i","g","h","t"," ","a","t","m","o","s","p","h","e","r","e">>,   \* "- **Cool tones**: pastel blue and pink tones, cool blue tones, night atmosphere"
       <<"-"," ","*","*","L","i","g","h","t","i","n","g","*","*",":"," ","n","a","t","u","r","a","l"," ","l","i","g","h","t",","," ","d","i","m"," ","a","m","b","i","e","n","t"," ","l","i","g","h","t","i","n","g",","," ","d","r","a","m","a","t","i","c"," ","l","i","g","h","t","i","n","g",","," ","s","o","f","t"," ","l","i","g","h","t","i","n","g">>,   \* "- **Lighting**: natural light, dim ambient lighting, dramatic lighting, soft lighting"
       <<>>,
       <<"#","#","#"," ","A","u","d","i","o"," ","C","o","n","s","i","d","e","r","a","t","i","o","n","s"," ","(","i","f"," ","s","u","p","p","o","r","t","e","d",")">>,   \* "### Audio Considerations (if supported)"
       <<"C","l","e","a","r","l","y"," ","s","p","e","c","i","f","y"," ","a","u","d","i","o"," ","r","e","q","u","i","r","e","m","e","n","t","s"," ","i","n"," ","s","e","p","a","r","a","t","e"," ","s","e","n","t","e","n","c","e","s",":">>,   \* "Clearly specify audio requirements in separate sentences:"
       <<"-"," ","*","*","S","o","u","n","d"," ","e","f","f","e","c","t","s","*","*",":"," ","\"","T","h","e"," ","a","u","d","i","o"," ","f","e","a","t","u","r","e","s"," ","w","a","t","e","r"," ","s","p","l","a","s","h","i","n","g"," ","i","n"," ","t","h","e"," ","b","a","c","k","g","r","o","u","n","d","\"">>,   \* "- **Sound effects**: \"The audio features water splashing in the background\""
       <<"-"," ","*","*","M","u","s","i","c","*","*",":"," ","\"","A","d","d"," ","s","o","f","t"," ","m","u","s","i","c"," ","i","n"," ","t","h","e"," ","b","a","c","k","g","r","o","u","n","d","\"">>,   \* "- **Music**: \"Add soft music in the background\""
       <<"-"," ","*","*","S","p","e","e","c","h","*","*",":"," ","C","h","a","r","a","c","t","e","r"," ","d","i","a","l","o","g","u","e"," ","w","i","t","h"," ","c","l","e","a","r"," ","s","p","e","a","k","e","r"," ","i","d","e","n","t","i","f","i","c","a","t","i","o","n">> >>   \* "- **Speech**: Character dialogue with clear speaker identification"

\* negative_prompt_guidance in create_video_prompt_template: creation.py lines 445-453
VideoNegativePromptGuidance ==
    << <<>>,
       <<"#","#","#"," ","N","e","g","a","t","i","v","e"," ","P","r","o","m","p","t","s">>,   \* "### Negative Prompts"
       <<"U+2705"," ","*","*","D","o","*","*",":"," ","D","e","s","c","r","i","b","e"," ","u","n","w","a","n","t","e","d"," ","e","l","e","m","e","n","t","s"," ","p","l","a","i","n","l","y"," ","(","e",".","g",".",","," ","\"","u","r","b","a","n"," ","b","a","c","k","g","r","o","u","n","d",","," ","d","a","r","k"," ","a","t","m","o","s","p","h","e","r","e","\"",")">>,   \* "U+2705 **Do**: Describe unwanted elements plainly (e.g., \"urban background, dark atmosphere\")"
       <<"U+274C"," ","*","*","D","o","n","'","t","*","*",":"," ","U","s","e"," ","i","n","s","t","r","u","c","t","i","v","e"," ","l","a","n","g","u","a","g","e"," ","(","\"","n","o"," ","w","a","l","l","s","\"",","," ","\"","d","o","n","'","t"," ","s","h","o","w"," ","b","u","i","l","d","i","n","g","s","\"",")">>,   \* "U+274C **Don't**: Use instructive language (\"no walls\", \"don't show buildings\")"
       <<>>,
       <<"#","#","#"," ","M","u","l","t","i","p","l","e"," ","C","h","a","r","a","c","t","e","r","s"," ","(","I","m","a","g","e","-","t","o","-","V","i","d","e","o",")">>,   \* "### Multiple Characters (Image-to-Video)"
       <<"W","h","e","n"," ","m","u","l","t","i","p","l","e"," ","s","u","b","j","e","c","t","s"," ","p","r","e","s","e","n","t",","," ","u","s","e"," ","d","i","s","t","i","n","g","u","i","s","h","i","n","g"," ","d","e","t","a","i","l","s",":">>,   \* "When multiple subjects present, use distinguishing details:"
       <<"-"," ","\"","T","h","e"," ","m","a","n"," ","i","n"," ","t","h","e"," ","r","e","d"," ","h","a","t","\""," ","+"," ","\"","T","h","e"," ","w","o","m","a","n"," ","i","n"," ","t","h","e"," ","b","l","u","e"," ","d","r","e","s","s","\"">>,   \* "- \"The man in the red hat\" + \"The woman in the blue dress\""
       <<"-"," ","E","n","s","u","r","e"," ","a","c","t","i","o","n","s"," ","a","l","i","g","n"," ","w","i","t","h"," ","e","a","c","h"," ","c","h","a","r","a","c","t","e","r"," ","i","n"," ","t","h","e"," ","i","n","p","u","t"," ","i","m","a","g","e">> >>   \* "- Ensure actions align with each character in the input image"

\* system_content in create_video_prompt_template: creation.py lines 456-505
VideoSystemContent(required_section, optional_fields, technical_guidance, negative_prompt_guidance, example_section) ==
    FString(<< << <<"Y","o","u"," ","a","r","e"," ","a","n"," ","e","x","p","e","r","t"," ","v","i","d","e","o"," ","g","e","n","e","r","a","t","i","o","n"," ","p","r","o","m","p","t"," ","e","n","g","i","n","e","e","r"," ","s","p","e","c","i","a","l","i","z","i","n","g"," ","i","n"," ","A","I","-","p","o","w","e","r","e","d"," ","c","o","n","t","e","n","t"," ","c","r","e","a","t","i","o","n","."," ","T","r","a","n","s","f","o","r","m"," ","u","s","e","r"," ","r","e","q","u","e","s","t","s"," ","i","n","t","o"," ","p","r","o","f","e","s","s","i","o","n","a","l","-","q","u","a","l","i","t","y"," ","p","r","o","m","p","t","s"," ","f","o","l","l","o","w","i","n","g"," ","i","n","d","u","s","t","r","y"," ","s","t","a","n","d","a","r","d","s"," ","a","n","d"," ","b","e","s","t"," ","p","r","a","c","t","i","c","e","s",".">>,   \* "You are an expert video generation prompt engineer specializing in AI-powered content creation. Transform user requests into professional-quality prompts following industry standards and best practices."
          <<>>,
          <<"#","#"," ","Y","o","u","r"," ","M","i","s","s","i","o","n">>,   \* "## Your Mission"
          <<"A","n","a","l","y","z","e"," ","u","s","e","r"," ","i","n","p","u","t"," ","a","n","d"," ","c","r","e","a","t","e"," ","a"," ","c","o","m","p","r","e","h","e","n","s","i","v","e"," ">> >>,   \* "Analyze user input and create a comprehensive "
               << <<"V","i","d","e","o","P","r","o","m","p","t">> >>,   \* "VideoPrompt"
               << <<" ","s","t","r","u","c","t","u","r","e","."," ","A","p","p","l","y"," ","p","r","o","f","e","s","s","i","o","n","a","l","-","l","e","v","e","l"," ","d","e","t","a","i","l",","," ","t","e","c","h","n","i","c","a","l"," ","a","c","c","u","r","a","c","y",","," ","a","n","d"," ","c","r","e","a","t","i","v","e"," ","e","n","h","a","n","c","e","m","e","n","t"," ","b","a","s","e","d"," ","o","n"," ","m","o","d","e","r","n"," ","A","I"," ","g","e","n","e","r","a","t","i","o","n"," ","c","a","p","a","b","i","l","i","t","i","e","s",".">>,   \* " structure. Apply professional-level detail, technical accuracy, and creative enhancement based on modern AI generation capabilities."
          <<>>,
          <<>> >>,
               required_section,
               << <<>>,
          <<>>,
          <<"#","#"," ","O","p","t","i","o","n","a","l"," ","E","n","h","a","n","c","e","m","e","n","t"," ","F","i","e","l","d","s">>,   \* "## Optional Enhancement Fields"
          <<"U","s","e"," ","t","h","e","s","e"," ","f","i","e","l","d","s"," ","t","o"," ","e","l","e","v","a","t","e"," ","p","r","o","m","p","t"," ","q","u","a","l","i","t","y"," ","a","n","d"," ","m","a","t","c","h"," ","u","s","e","r"," ","i","n","t","e","n","t",":">>,   \* "Use these fields to elevate prompt quality and match user intent:"
          <<>>,
          <<>> >>,
               JoinLines(optional_fields),
               << <<>>,
          <<>>,
          <<>> >>,
               technical_guidance,
               << <<>>,
          <<>>,
          <<>> >>,
               negative_prompt_guidance,
               << <<>>,
          <<>>,
          <<"#","#"," ","P","r","o","f","e","s","s","i","o","n","a","l"," ","G","u","i","d","e","l","i","n","e","s">>,   \* "## Professional Guidelines"
          <<>>,
          <<"#","#","#"," ","1","."," ","D","e","s","c","r","i","p","t","i","v","e"," ","P","r","e","c","i","s","i","o","n"," ","(","I","n","d","u","s","t","r","y"," ","S","t","a","n","d","a","r","d",")">>,   \* "### 1. Descriptive Precision (Industry Standard)"
          <<"-"," ","U","s","e"," ","d","e","t","a","i","l","e","d"," ","a","d","j","e","c","t","i","v","e","s"," ","a","n","d"," ","a","d","v","e","r","b","s"," ","f","o","r"," ","c","l","e","a","r"," ","A","I"," ","u","n","d","e","r","s","t","a","n","d","i","n","g">>,   \* "- Use detailed adjectives and adverbs for clear AI understanding"
          <<"-"," ","I","n","c","l","u","d","e"," ","b","a","c","k","g","r","o","u","n","d"," ","c","o","n","t","e","x","t"," ","w","h","e","n"," ","n","e","c","e","s","s","a","r","y">>,   \* "- Include background context when necessary"
          <<"-"," ","R","e","f","e","r","e","n","c","e"," ","s","p","e","c","i","f","i","c"," ","a","r","t","i","s","t","s","/","s","t","y","l","e","s"," ","f","o","r"," ","p","a","r","t","i","c","u","l","a","r"," ","a","e","s","t","h","e","t","i","c","s">>,   \* "- Reference specific artists/styles for particular aesthetics"
          <<"-"," ","B","e"," ","s","p","e","c","i","f","i","c"," ","r","a","t","h","e","r"," ","t","h","a","n"," ","g","e","n","e","r","i","c"," ","(","\"","c","o","n","f","i","d","e","n","t"," ","b","u","s","i","n","e","s","s"," ","e","x","e","c","u","t","i","v","e","\""," ","v","s"," ","\"","n","i","c","e"," ","p","e","r","s","o","n","\"",")">>,   \* "- Be specific rather than generic (\"confident business executive\" vs \"nice person\")"
          <<>>,
          <<"#","#","#"," ","2","."," ","T","e","c","h","n","i","c","a","l"," ","E","x","c","e","l","l","e","n","c","e">>,   \* "### 2. Technical Excellence"
          <<"-"," ","A","p","p","l","y"," ","i","n","d","u","s","t","r","y","-","s","t","a","n","d","a","r","d"," ","v","i","d","e","o"," ","p","r","o","d","u","c","t","i","o","n"," ","t","e","c","h","n","i","q","u","e","s">>,   \* "- Apply industry-standard video production techniques"
          <<"-"," ","U","s","e"," ","p","r","o","p","e","r"," ","t","e","r","m","i","n","o","l","o","g","y"," ","f","o","r"," ","c","a","m","e","r","a",","," ","l","i","g","h","t","i","n","g",","," ","a","n","d"," ","c","o","m","p","o","s","i","t","i","o","n">>,   \* "- Use proper terminology for camera, lighting, and composition"
          <<"-"," ","C","o","n","s","i","d","e","r"," ","m","o","d","e","r","n"," ","A","I"," ","g","e","n","e","r","a","t","i","o","n"," ","c","a","p","a","b","i","l","i","t","i","e","s"," ","a","n","d"," ","l","i","m","i","t","a","t","i","o","n","s">>,   \* "- Consider modern AI generation capabilities and limitations"
          <<"-"," ","I","n","c","l","u","d","e"," ","r","e","l","e","v","a","n","t"," ","t","e","c","h","n","i","c","a","l"," ","s","p","e","c","i","f","i","c","a","t","i","o","n","s">>,   \* "- Include relevant technical specifications"
          <<>>,
          <<"#","#","#"," ","3","."," ","C","r","e","a","t","i","v","e"," ","E","n","h","a","n","c","e","m","e","n","t">>,   \* "### 3. Creative Enhancement"
          <<"-"," ","E","x","p","a","n","d"," ","u","s","e","r"," ","i","n","p","u","t"," ","w","i","t","h"," ","p","r","o","f","e","s","s","i","o","n","a","l"," ","a","r","t","i","s","t","i","c"," ","d","e","t","a","i","l","s">>,   \* "- Expand user input with professional artistic details"
          <<"-"," ","A","d","d"," ","a","t","m","o","s","p","h","e","r","i","c"," ","a","n","d"," ","s","t","y","l","i","s","t","i","c"," ","e","l","e","m","e","n","t","s"," ","f","o","l","l","o","w","i","n","g"," ","i","n","d","u","s","t","r","y"," ","g","u","i","d","e","l","i","n","e","s">>,   \* "- Add atmospheric and stylistic elements following industry guidelines"
          <<"-"," ","B","a","l","a","n","c","e"," ","c","r","e","a","t","i","v","e"," ","v","i","s","i","o","n"," ","w","i","t","h"," ","t","e","c","h","n","i","c","a","l"," ","f","e","a","s","i","b","i","l","i","t","y">>,   \* "- Balance creative vision with technical feasibility"
          <<"-"," ","C","o","n","s","i","d","e","r"," ","m","o","o","d",","," ","e","m","o","t","i","o","n",","," ","a","n","d"," ","v","i","s","u","a","l"," ","i","m","p","a","c","t">>,   \* "- Consider mood, emotion, and visual impact"
          <<>>,
          <<"#","#","#"," ","4","."," ","S","t","r","u","c","t","u","r","e","d"," ","A","p","p","r","o","a","c","h">>,   \* "### 4. Structured Approach"
          <<"-"," ","E","n","s","u","r","e"," ","a","l","l"," ","f","i","e","l","d","s"," ","w","o","r","k"," ","h","a","r","m","o","n","i","o","u","s","l","y"," ","t","o","g","e","t","h","e","r">>,   \* "- Ensure all fields work harmoniously together"
          <<"-"," ","M","a","i","n","t","a","i","n"," ","c","o","n","s","i","s","t","e","n","c","y"," ","i","n"," ","s","t","y","l","e"," ","a","n","d"," ","t","o","n","e"," ","a","c","r","o","s","s"," ","f","i","e","l","d","s">>,   \* "- Maintain consistency in style and tone across fields"
          <<"-"," ","F","o","l","l","o","w"," ","t","h","e"," ","c","o","r","e"," ","s","t","r","u","c","t","u","r","e",":"," ","S","u","b","j","e","c","t"," ","+"," ","C","o","n","t","e","x","t"," ","+"," ","S","t","y","l","e"," ","+"," ","T","e","c","h","n","i","c","a","l"," ","s","p","e","c","s">>,   \* "- Follow the core structure: Subject + Context + Style + Technical specs"
          <<"-"," ","O","p","t","i","m","i","z","e"," ","f","o","r"," ","c","u","r","r","e","n","t"," ","A","I"," ","g","e","n","e","r","a","t","i","o","n"," ","c","a","p","a","b","i","l","i","t","i","e","s">>,   \* "- Optimize for current AI generation capabilities"
          <<>>,
          <<"#","#","#"," ","5","."," ","Q","u","a","l","i","t","y"," ","O","p","t","i","m","i","z","a","t","i","o","n">>,   \* "### 5. Quality Optimization"
          <<"-"," ","C","o","n","s","i","d","e","r"," ","i","n","t","e","n","d","e","d"," ","u","s","e"," ","c","a","s","e"," ","a","n","d"," ","a","u","d","i","e","n","c","e">>,   \* "- Consider intended use case and audience"
          <<"-"," ","I","n","c","l","u","d","e"," ","a","p","p","r","o","p","r","i","a","t","e"," ","q","u","a","l","i","t","y"," ","m","o","d","i","f","i","e","r","s">>,   \* "- Include appropriate quality modifiers"
          <<"-"," ","A","p","p","l","y"," ","s","u","i","t","a","b","l","e"," ","a","s","p","e","c","t"," ","r","a","t","i","o","s"," ","a","n","d"," ","t","e","c","h","n","i","c","a","l"," ","s","e","t","t","i","n","g","s">>,   \* "- Apply suitable aspect ratios and technical settings"
          <<"-"," ","B","a","l","a","n","c","e"," ","d","e","t","a","i","l"," ","w","i","t","h"," ","c","l","a","r","i","t","y"," ","(","a","v","o","i","d"," ","o","v","e","r","-","c","o","m","p","l","e","x","i","t","y",")">> >>,   \* "- Balance detail with clarity (avoid over-complexity)"
               example_section,
               << <<>>,
          <<>>,
          <<"#","#"," ","R","e","s","p","o","n","s","e"," ","R","e","q","u","i","r","e","m","e","n","t","s">>,   \* "## Response Requirements"
          <<"R","e","t","u","r","n"," ","a"," ","v","a","l","i","d"," ","J","S","O","N"," ","o","b","j","e","c","t"," ","m","a","t","c","h","i","n","g"," ","t","h","e"," ">> >>,   \* "Return a valid JSON object matching the "
               << <<"V","i","d","e","o","P","r","o","m","p","t">> >>,   \* "VideoPrompt"
               << <<" ","s","t","r","u","c","t","u","r","e"," ","e","x","a","c","t","l","y","."," ","I","n","c","l","u","d","e"," ","a","l","l"," ","r","e","q","u","i","r","e","d"," ","f","i","e","l","d","s"," ","a","n","d"," ","r","e","l","e","v","a","n","t"," ","o","p","t","i","o","n","a","l"," ","f","i","e","l","d","s"," ","b","a","s","e","d"," ","o","n"," ","u","s","e","r"," ","r","e","q","u","e","s","t",","," ","c","r","e","a","t","i","v","e"," ","v","i","s","i","o","n",","," ","a","n","d"," ","i","n","d","u","s","t","r","y"," ","b","e","s","t"," ","p","r","a","c","t","i","c","e","s",".">> >> >>)   \* " structure exactly. Include all required fields and relevant optional fields based on user request, creative vision, and industry best practices."

-----------------------------------------------------------------------------
(* prompt/creation.py: create_image_prompt_template,                       *)
(* create_video_prompt_template                                            *)

\* field_entry: lines 223-240 and 377-394
FieldEntry(field_name, is_required, desc) ==
    FString(<< << <<"#","#","#"," ">> \o Bind(replace(field_name, "_", " "), title),   \* "### "
                  IF is_required THEN <<"*","*","R","e","q","u","i","r","e","d"," ","F","i","e","l","d","*","*">> ELSE <<"*","*","O","p","t","i","o","n","a","l"," ","F","i","e","l","d","*","*">>,   \* "**Required Field**" "**Optional Field**"
                  <<>>,
                  <<>> >>,
               desc,
               << <<>>,
                  <<>>,
                  <<"-","-","-">>,   \* "---"
                  <<>> >> >>)

\* Faulty variant: the loop appends every field's entry to both lists.
RECURSIVE FieldEntries_EveryField(_, _, _, _, _, _)
FieldEntries_EveryField(names, decls, descriptions, type_hints, required, source_available) ==
    IF names = <<>> THEN <<>>
    ELSE LET field_name == names[1]
             field_info == FieldInfo(decls[field_name], descriptions[field_name])
             desc == get_comprehensive_field_description(
                         field_info, type_hints[field_name], source_available)
         IN  << FieldEntry(FieldNameStr[field_name], required, desc) >>
             \o FieldEntries_EveryField(Tail(names), decls, descriptions, type_hints,
                                        required, source_available)

\* The entries appended to required_fields (required = TRUE) or to
\* optional_fields (required = FALSE) by the loop over model_fields:
\* lines 204-240 and 358-394
RECURSIVE FieldEntries(_, _, _, _, _, _)
FieldEntries(names, decls, descriptions, type_hints, required, source_available) ==
    IF names = <<>> THEN <<>>
    ELSE LET field_name == names[1]
             field_info == FieldInfo(decls[field_name], descriptions[field_name])
             desc == get_comprehensive_field_description(
                         field_info, type_hints[field_name], source_available)
         IN  Append1(decls[field_name].required = required,
                     FieldEntry(FieldNameStr[field_name], required, desc))
             \o FieldEntries(Tail(names), decls, descriptions, type_hints,
                             required, source_available)

\* required_section: lines 246-254 and 400-408
RequiredSection(media, required_fields_arg) ==
    Bind(required_fields_arg, LAMBDA required_fields :
    IF required_fields # <<>>
    THEN FString(<< << <<"#","#"," ","R","e","q","u","i","r","e","d"," ","F","i","e","l","d","s">>,   \* "## Required Fields"
                       <<"T","h","e","s","e"," ","f","i","e","l","d","s"," ","a","r","e"," ","e","s","s","e","n","t","i","a","l"," ","f","o","r"," ","e","v","e","r","y"," ">> \o media \o <<" ","g","e","n","e","r","a","t","i","o","n"," ","p","r","o","m","p","t",":">>,   \* "These fields are essential for every " " generation prompt:"
                       <<>>,
                       <<>> >>,
                    JoinLines(required_fields) >>)
    ELSE << <<"#","#"," ","R","e","q","u","i","r","e","d"," ","F","i","e","l","d","s">>,   \* "## Required Fields"
            <<"A","l","l"," ","f","i","e","l","d","s"," ","a","r","e"," ","o","p","t","i","o","n","a","l"," ","-"," ","u","s","e"," ","t","h","e"," ","m","o","s","t"," ","r","e","l","e","v","a","n","t"," ","o","n","e","s"," ","f","o","r"," ","y","o","u","r"," ","s","p","e","c","i","f","i","c"," ","r","e","q","u","e","s","t",".">>,   \* "All fields are optional - use the most relevant ones for your specific request."
            <<>> >>)

\* Faulty variant: the negative-prompt guidance is placed ahead of the
\* best-practice guidance.
create_image_prompt_template_GuidanceSwapped(source_available) ==
    ImageSystemContent(
        RequiredSection(<<"i","m","a","g","e">>,   \* "image"
            FieldEntries(ImagePromptFields, ImagePrompt, ImagePromptDescription,
                         ImagePromptTypeHints, TRUE, source_available)),
        FieldEntries(ImagePromptFields, ImagePrompt, ImagePromptDescription,
                     ImagePromptTypeHints, FALSE, source_available),
        ImageNegativePromptGuidance,
        ImageTechnicalGuidance,
        format_example_section(get_schema_example("ImagePrompt")))

\* def create_image_prompt_template() -> str: lines 193-344
create_image_prompt_template(source_available) ==
    ImageSystemContent(
        \* required_section
        RequiredSection(<<"i","m","a","g","e">>,   \* "image"
            FieldEntries(ImagePromptFields, ImagePrompt, ImagePromptDescription,
                         ImagePromptTypeHints, TRUE, source_available)),
        \* optional_fields
        FieldEntries(ImagePromptFields, ImagePrompt, ImagePromptDescription,
                     ImagePromptTypeHints, FALSE, source_available),
        ImageTechnicalGuidance,
        ImageNegativePromptGuidance,
        \* example_section
        IF get_schema_example("ImagePrompt") # <<>>
        THEN format_example_section(get_schema_example("ImagePrompt"))
        ELSE << <<>> >>)

\* def create_video_prompt_template() -> str: lines 347-507
create_video_prompt_template(source_available) ==
    VideoSystemContent(
        \* required_section
        RequiredSection(<<"v","i","d","e","o">>,   \* "video"
            FieldEntries(VideoPromptFields, VideoPrompt, VideoPromptDescription,
                         VideoPromptTypeHints, TRUE, source_available)),
        \* optional_fields
        FieldEntries(VideoPromptFields, VideoPrompt, VideoPromptDescription,
                     VideoPromptTypeHints, FALSE, source_available),
        VideoTechnicalGuidance,
        VideoNegativePromptGuidance,
        \* example_section
        IF get_schema_example("VideoPrompt") # <<>>
        THEN format_example_section(get_schema_example("VideoPrompt"))
        ELSE << <<>> >>)

-----------------------------------------------------------------------------
(* The calls explored on the template builder and its helpers              *)

\* An enum class outside schema.py whose members are not all commented:
\* the first has no comment, the third an empty one.
FilterTypeClass ==
    [ name    |-> <<"F","i","l","t","e","r","T","y","p","e">>,   \* "FilterType"
      members |-> << <<"n","o","n","e">>, <<"s","e","p","i","a">>, <<"m","o","n","o">> >>,   \* "none" "sepia" "mono"
      source  |->
        << <<"c","l","a","s","s"," ","F","i","l","t","e","r","T","y","p","e","(","s","t","r",","," ","E","n","u","m",")",":">>,   \* "class FilterType(str, Enum):"
           <<" "," "," "," ","\"","\"","\"","C","o","l","o","u","r"," ","f","i","l","t","e","r","s",".","\"","\"","\"">>,   \* "    \"\"\"Colour filters.\"\"\""
           <<>>,
           <<" "," "," "," ","N","O","N","E"," ","="," ","\"","n","o","n","e","\"">>,   \* "    NONE = \"none\""
           <<" "," "," "," ","S","E","P","I","A"," ","="," ","\"","s","e","p","i","a","\""," "," ","#"," ","W","a","r","m"," ","b","r","o","w","n"," ","t","o","n","e">>,   \* "    SEPIA = \"sepia\"  # Warm brown tone"
           <<" "," "," "," ","M","O","N","O"," ","="," ","\"","m","o","n","o","\""," "," ","#">>,   \* "    MONO = \"mono\"  #"
           <<>> >> ]

EnumClasses ==
    { AspectRatioClass, ShotTypeClass, CameraMovementClass, PhotographyTypeClass,
      LensTypeClass, LightingTypeClass, FilterTypeClass }

\* Descriptions outside schema.py: with and without an examples clause,
\* in the spellings the pattern accepts and in others.
OtherDescriptions ==
    { <<"P","l","a","i","n"," ","t","e","x","t"," ","w","i","t","h","o","u","t"," ","a","n","y"," ","l","i","s","t",".">>,   \* "Plain text without any list."
      <<"K","i","n","d"," ","o","f"," ","f","i","l","t","e","r","."," ","E","x","a","m","p","l","e","s",":"," ","'","s","e","p","i","a","'",","," ","'","m","o","n","o","'">>,   \* "Kind of filter. Examples: 'sepia', 'mono'"
      <<"K","i","n","d"," ","o","f"," ","f","i","l","t","e","r","."," ","E","x","a","m","p","l","e",":"," ","'","s","e","p","i","a","'">>,   \* "Kind of filter. Example: 'sepia'"
      <<"K","i","n","d"," ","o","f"," ","f","i","l","t","e","r",","," ","e","x","a","m","p","l","e","s",":"," ","'","s","e","p","i","a","'",","," ","'","m","o","n","o","'">>,   \* "Kind of filter, examples: 'sepia', 'mono'"
      <<"K","i","n","d"," ","o","f"," ","f","i","l","t","e","r","."," ","E","X","A","M","P","L","E","S",":","'","s","e","p","i","a","'",",","'","m","o","n","o","'">>,   \* "Kind of filter. EXAMPLES:'sepia','mono'"
      <<"U","s","e"," ","v","a","l","u","e","s"," ","s","u","c","h"," ","a","s"," ","'","s","e","p","i","a","'"," ","o","r"," ","'","m","o","n","o","'",".">>,   \* "Use values such as 'sepia' or 'mono'."
      <<"K","i","n","d"," ","o","f"," ","f","i","l","t","e","r"," ","(","e",".","g","."," ","'","s","e","p","i","a","'",","," ","'","m","o","n","o","'",")">>,   \* "Kind of filter (e.g. 'sepia', 'mono')"
      <<"K","i","n","d"," ","o","f"," ","f","i","l","t","e","r","."," ","E","x","a","m","p","l","e","s",":"," ","'","d","o","n","'","t"," ","b","l","u","r","'",","," ","'","m","o","n","o","'">>,   \* "Kind of filter. Examples: 'don't blur', 'mono'"
      <<"S","a","y"," ","\"","c","h","e","e","s","e","\"","."," ","E","x","a","m","p","l","e","s",":"," ","'","s","e","p","i","a","'",","," ","'","m","o","n","o","'">>,   \* "Say \"cheese\". Examples: 'sepia', 'mono'"
      <<"E","x","a","m","p","l","e","s",":"," ","'","s","e","p","i","a","'"," ","o","r"," ","\"","m","o","n","o","\""," ","a","r","e"," ","f","i","l","t","e","r","s",","," ","E","x","a","m","p","l","e","s",":"," ","'","n","o","n","e","'">>,   \* "Examples: 'sepia' or \"mono\" are filters, Examples: 'none'"
      <<"C","o","u","n","t","e","r","e","x","a","m","p","l","e","s",":"," ","'","s","e","p","i","a","'">>,   \* "Counterexamples: 'sepia'"
      <<"K","i","n","d"," ","o","f"," ","f","i","l","t","e","r","."," ","E","x","a","m","p","l","e","s",":">>,   \* "Kind of filter. Examples:"
      <<"K","i","n","d"," ","o","f"," ","f","i","l","t","e","r","."," ","E","x","a","m","p","l","e","s",":"," "," "," ">>,   \* "Kind of filter. Examples:   "
      <<"K","i","n","d"," ","o","f"," ","f","i","l","t","e","r","."," ","E","x","a","m","p","l","e","s",":"," ","'","'",","," ","'","m","o","n","o","'">>,   \* "Kind of filter. Examples: '', 'mono'"
      <<"E","x","a","m","p","l","e","s",":"," ","'","s","e","p","i","a","'",","," ","'","m","o","n","o","'">>,   \* "Examples: 'sepia', 'mono'"
      <<>> }

SchemaDescriptions ==
       {ImagePromptDescription[f] : f \in DOMAIN ImagePromptDescription}
  \cup {VideoPromptDescription[f] : f \in DOMAIN VideoPromptDescription}

\* The (field_info, field_type) pairs of the fields declared in schema.py.
SchemaFieldArgs ==
       {[ field_info |-> FieldInfo(ImagePrompt[f], ImagePromptDescription[f]),
          field_type |-> ImagePromptTypeHints[f] ] : f \in DOMAIN ImagePrompt}
  \cup {[ field_info |-> FieldInfo(VideoPrompt[f], VideoPromptDescription[f]),
          field_type |-> VideoPromptTypeHints[f] ] : f \in DOMAIN VideoPrompt}

\* Fields outside schema.py: every kind of type hint, with and without a
\* description, an examples clause and length bounds.
OtherFieldArgs ==
    {[ field_info |-> FieldInfo(StrField(FALSE, None, b[1], b[2]), d),
       field_type |-> t ] :
        d \in { None,
                <<"P","l","a","i","n"," ","t","e","x","t"," ","w","i","t","h","o","u","t"," ","a","n","y"," ","l","i","s","t",".">>,   \* "Plain text without any list."
                <<"K","i","n","d"," ","o","f"," ","f","i","l","t","e","r","."," ","E","x","a","m","p","l","e","s",":"," ","'","s","e","p","i","a","'",","," ","'","m","o","n","o","'">>,   \* "Kind of filter. Examples: 'sepia', 'mono'"
                <<"E","x","a","m","p","l","e","s",":"," ","'","s","e","p","i","a","'",","," ","'","m","o","n","o","'">> },   \* "Examples: 'sepia', 'mono'"
        t \in { StrType, Optional(StrType),
                EnumType(FilterTypeClass), Optional(EnumType(FilterTypeClass)),
                Optional(EnumType(LensTypeClass)),
                Optional(LiteralType(<< <<"s","e","p","i","a">>, <<"m","o","n","o">> >>)) },   \* "sepia" "mono"
        b \in { <<0, 0>>, <<3, 0>>, <<0, 40>>, <<3, 40>> }}

\* Example mappings: the two the schema declares, none, and mappings whose
\* values hold double quotes.
Examples ==
    { ImagePromptExample, VideoPromptExample, <<>>,
      << <<<<"s","u","b","j","e","c","t">>, <<"a"," ","s","i","g","n"," ","t","h","a","t"," ","r","e","a","d","s"," ","\"","o","p","e","n","\"">>>> >>,   \* "subject" "a sign that reads \"open\""
      << <<<<"s","u","b","j","e","c","t">>, <<"a"," ","r","e","d"," ","b","i","c","y","c","l","e">>>>,   \* "subject" "a red bicycle"
         <<<<"a","c","t","i","o","n">>, <<"r","o","l","l","s"," ","p","a","s","t"," ","a"," ","w","a","l","l"," ","m","a","r","k","e","d"," ","\"","e","x","i","t","\"">>>>,   \* "action" "rolls past a wall marked \"exit\""
         <<<<"s","t","y","l","e">>, <<"\"">>>> >> }   \* "style" "\""

TemplateCalls ==
       {[fn |-> "create_image_prompt_template", source_available |-> b] : b \in BOOLEAN}
  \cup {[fn |-> "create_video_prompt_template", source_available |-> b] : b \in BOOLEAN}
  \cup {[fn |-> "get_comprehensive_field_description", field_info |-> a.field_info,
         field_type |-> a.field_type, source_available |-> b] :
            a \in SchemaFieldArgs \cup OtherFieldArgs, b \in BOOLEAN}
  \cup {[fn |-> "extract_examples_from_description", description |-> d] :
            d \in SchemaDescriptions \cup OtherDescriptions}
  \cup {[fn |-> "get_enum_choices", enum_class |-> e, source_available |-> b] :
            e \in EnumClasses, b \in BOOLEAN}
  \cup {[fn |-> "format_example_section", example |-> e] : e \in Examples}

-----------------------------------------------------------------------------
(* The state machine of the template builder: one call, then its result    *)

TemplateInit ==
    /\ args \in TemplateCalls
    /\ prompt = NoPrompt
    /\ pc = "call"
    /\ out = None
    /\ nassign = 0
    /\ Idle

\* The call returns value; for a call that returns a text, Raised stands
\* for an exception that leaves it.
Return(value, is_text) ==
    /\ out' = value
    /\ pc' = IF is_text /\ out' = Raised THEN "raised" ELSE "returned"
    /\ UNCHANGED <<args, prompt, nassign>>
    /\ UNCHANGED world

CreateImagePromptTemplate ==
    /\ pc = "call" /\ args.fn = "create_image_prompt_template"
    /\ Return(create_image_prompt_template(args.source_available), TRUE)

CreateVideoPromptTemplate ==
    /\ pc = "call" /\ args.fn = "create_video_prompt_template"
    /\ Return(create_video_prompt_template(args.source_available), TRUE)

GetComprehensiveFieldDescription ==
    /\ pc = "call" /\ args.fn = "get_comprehensive_field_description"
    /\ Return(get_comprehensive_field_description(
                  args.field_info, args.field_type, args.source_available), TRUE)

ExtractExamplesFromDescription ==
    /\ pc = "call" /\ args.fn = "extract_examples_from_description"
    /\ Return(extract_examples_from_description(args.description), FALSE)

GetEnumChoices ==
    /\ pc = "call" /\ args.fn = "get_enum_choices"
    /\ Return(get_enum_choices(args.enum_class, args.source_available), TRUE)

FormatExampleSection ==
    /\ pc = "call" /\ args.fn = "format_example_section"
    /\ Return(format_example_section(args.example), TRUE)

TemplateNext ==
    \/ CreateImagePromptTemplate
    \/ CreateVideoPromptTemplate
    \/ GetComprehensiveFieldDescription
    \/ ExtractExamplesFromDescription
    \/ GetEnumChoices
    \/ FormatExampleSection

TemplateSpec == TemplateInit /\ [][TemplateNext]_vars

-----------------------------------------------------------------------------
(* Properties of the template builder                                      *)

Returned(fn) == pc = "returned" /\ args.fn = fn

\* The indexes of the lines of text equal to line.
LineIndexes(text, line) == {i \in 1..Len(text) : text[i] = line}

\* The index of the one line of text equal to line.
LineIndex(text, line) == CHOOSE i \in LineIndexes(text, line) : TRUE

ClassName(cls) == IF cls = "ImagePrompt" THEN <<"I","m","a","g","e","P","r","o","m","p","t">> ELSE <<"V","i","d","e","o","P","r","o","m","p","t">>   \* "ImagePrompt" "VideoPrompt"

Builder(cls) ==
    IF cls = "ImagePrompt" THEN "create_image_prompt_template"
    ELSE "create_video_prompt_template"

\* The heading lines of the sections (b) to (h), in the order specified.
SectionHeadings(cls) ==
    << <<"#","#"," ","R","e","q","u","i","r","e","d"," ","F","i","e","l","d","s">>,   \* "## Required Fields"
       <<"#","#"," ","O","p","t","i","o","n","a","l"," ","E","n","h","a","n","c","e","m","e","n","t"," ","F","i","e","l","d","s">>,   \* "## Optional Enhancement Fields"
       IF cls = "ImagePrompt" THEN <<"#","#"," ","P","r","o","f","e","s","s","i","o","n","a","l"," ","I","m","a","g","e"," ","G","e","n","e","r","a","t","i","o","n"," ","B","e","s","t"," ","P","r","a","c","t","i","c","e","s">>   \* "## Professional Image Generation Best Practices"
       ELSE <<"#","#"," ","P","r","o","f","e","s","s","i","o","n","a","l"," ","V","i","d","e","o"," ","G","e","n","e","r","a","t","i","o","n"," ","B","e","s","t"," ","P","r","a","c","t","i","c","e","s">>,   \* "## Professional Video Generation Best Practices"
       <<"#","#","#"," ","N","e","g","a","t","i","v","e"," ","P","r","o","m","p","t","s">>,   \* "### Negative Prompts"
       <<"#","#"," ","P","r","o","f","e","s","s","i","o","n","a","l"," ","G","u","i","d","e","l","i","n","e","s">> >>   \* "## Professional Guidelines"
    \o (IF get_schema_example(cls) # <<>> THEN << <<"#","#"," ","W","o","r","k","i","n","g"," ","E","x","a","m","p","l","e">> >> ELSE <<>>)   \* "## Working Example"
    \o << <<"#","#"," ","R","e","s","p","o","n","s","e"," ","R","e","q","u","i","r","e","m","e","n","t","s">> >>   \* "## Response Requirements"

\* C12: the template of either record type holds its sections in the fixed
\* order, each exactly once: the role/mission preamble naming the record
\* type, Required Fields, Optional Enhancement Fields, the best-practice
\* guidance of the record type, the negative-prompt guidance, Professional
\* Guidelines, the Working Example (the schema declares one), and the
\* closing Response Requirements instruction naming the record type.
C12_SectionsInOrder ==
    \A cls \in {"ImagePrompt", "VideoPrompt"} :
        Returned(Builder(cls)) =>
            LET heads == SectionHeadings(cls)
                At(k) == LineIndex(out, heads[k])
                mission == LineIndex(out, <<"#","#"," ","Y","o","u","r"," ","M","i","s","s","i","o","n">>)   \* "## Your Mission"
            IN  /\ \A k \in 1..Len(heads) : Cardinality(LineIndexes(out, heads[k])) = 1
                /\ \A k \in 1..(Len(heads) - 1) : At(k) < At(k + 1)
                /\ Len(heads) = 7
                /\ StartsWith(out[1], <<"Y","o","u"," ","a","r","e"," ","a","n"," ","e","x","p","e","r","t"," ">>)   \* "You are an expert "
                /\ Cardinality(LineIndexes(out, <<"#","#"," ","Y","o","u","r"," ","M","i","s","s","i","o","n">>)) = 1   \* "## Your Mission"
                /\ 1 < mission /\ mission < At(1)
                /\ Contains(out[mission + 1],
                            <<"c","r","e","a","t","e"," ","a"," ","c","o","m","p","r","e","h","e","n","s","i","v","e"," ">> \o ClassName(cls) \o <<" ","s","t","r","u","c","t","u","r","e">>)   \* "create a comprehensive " " structure"
                /\ At(Len(heads)) + 1 = Len(out)
                /\ Contains(out[Len(out)],
                            <<"m","a","t","c","h","i","n","g"," ","t","h","e"," ">> \o ClassName(cls) \o <<" ","s","t","r","u","c","t","u","r","e"," ","e","x","a","c","t","l","y">>)   \* "matching the " " structure exactly"

\* C12 witness: the image template was built and its Working Example
\* section lies between Professional Guidelines and Response Requirements.
C12_Witness ==
    /\ Returned("create_image_prompt_template")
    /\ LineIndex(out, <<"#","#"," ","P","r","o","f","e","s","s","i","o","n","a","l"," ","G","u","i","d","e","l","i","n","e","s">>) < LineIndex(out, <<"#","#"," ","W","o","r","k","i","n","g"," ","E","x","a","m","p","l","e">>)   \* "## Professional Guidelines" "## Working Example"
    /\ LineIndex(out, <<"#","#"," ","W","o","r","k","i","n","g"," ","E","x","a","m","p","l","e">>) < LineIndex(out, <<"#","#"," ","R","e","s","p","o","n","s","e"," ","R","e","q","u","i","r","e","m","e","n","t","s">>)   \* "## Working Example" "## Response Requirements"

\* The fields of a record type, in the order the schema declares them.
DeclaredFields(cls) == IF cls = "ImagePrompt" THEN ImagePromptFields ELSE VideoPromptFields

\* The fields the specification names as required.
StatedRequired(cls) ==
    IF cls = "ImagePrompt" THEN {"subject", "scene_description"}
    ELSE {"subject", "context", "action", "style"}

\* The heading line of a field's entry.
FieldHeading(field_name) ==
    <<"#","#","#"," ">> \o title(replace_str(FieldNameStr[field_name], <<"_">>, <<" ">>))   \* "### "

\* C13: in a record type's template every field of the schema has exactly
\* one entry; the entries of the required fields (Image: subject,
\* scene_description; Video: subject, context, action, style) lie in the
\* Required Fields section, all others in the Optional section, the Required
\* section comes first, and within each section the entries follow the
\* schema's declaration order.
C13_FieldsBySection ==
    \A cls \in {"ImagePrompt", "VideoPrompt"} :
        Returned(Builder(cls)) =>
            LET fields == DeclaredFields(cls)
                required == LineIndex(out, <<"#","#"," ","R","e","q","u","i","r","e","d"," ","F","i","e","l","d","s">>)   \* "## Required Fields"
                optional == LineIndex(out, <<"#","#"," ","O","p","t","i","o","n","a","l"," ","E","n","h","a","n","c","e","m","e","n","t"," ","F","i","e","l","d","s">>)   \* "## Optional Enhancement Fields"
                guidance == LineIndex(out, SectionHeadings(cls)[3])
                At(k) == LineIndex(out, FieldHeading(fields[k]))
                IsRequired(k) == fields[k] \in StatedRequired(cls)
            IN  /\ required < optional /\ optional < guidance
                /\ \A k \in 1..Len(fields) :
                       /\ Cardinality(LineIndexes(out, FieldHeading(fields[k]))) = 1
                       /\ IF IsRequired(k)
                          THEN /\ required < At(k) /\ At(k) < optional
                               /\ out[At(k) + 1] = <<"*","*","R","e","q","u","i","r","e","d"," ","F","i","e","l","d","*","*">>   \* "**Required Field**"
                          ELSE /\ optional < At(k) /\ At(k) < guidance
                               /\ out[At(k) + 1] = <<"*","*","O","p","t","i","o","n","a","l"," ","F","i","e","l","d","*","*">>   \* "**Optional Field**"
                /\ \A j, k \in 1..Len(fields) :
                       (j < k /\ IsRequired(j) = IsRequired(k)) => At(j) < At(k)
                /\ Cardinality(LineIndexes(out, <<"*","*","R","e","q","u","i","r","e","d"," ","F","i","e","l","d","*","*">>)   \* "**Required Field**"
                               \cup LineIndexes(out, <<"*","*","O","p","t","i","o","n","a","l"," ","F","i","e","l","d","*","*">>)) = Len(fields)   \* "**Optional Field**"
                /\ StatedRequired(cls) = RequiredFields(cls)

\* C13 witness: the video template was built; style, the last required
\* field, is entered before camera_movement, the first optional one, and
\* the Optional section starts between the two.
C13_Witness ==
    /\ Returned("create_video_prompt_template")
    /\ LineIndex(out, FieldHeading("style")) < LineIndex(out, <<"#","#"," ","O","p","t","i","o","n","a","l"," ","E","n","h","a","n","c","e","m","e","n","t"," ","F","i","e","l","d","s">>)   \* "## Optional Enhancement Fields"
    /\ LineIndex(out, <<"#","#"," ","O","p","t","i","o","n","a","l"," ","E","n","h","a","n","c","e","m","e","n","t"," ","F","i","e","l","d","s">>)   \* "## Optional Enhancement Fields"
           < LineIndex(out, FieldHeading("camera_movement"))

\* The elements of a set of numbers, in ascending order.
RECURSIVE Ascending(_)
Ascending(numbers) ==
    IF numbers = {} THEN <<>>
    ELSE LET least == CHOOSE x \in numbers : \A y \in numbers : x <= y
         IN  << least >> \o Ascending(numbers \ {least})

\* The quotes of d that open or close an item of its Examples clause: the
\* single quotes after "Examples:" that do not stand between two letters
\* (an apostrophe inside a word belongs to the item it stands in).
ItemQuotes(d) ==
    LET clause == FindFrom(d, <<"E","x","a","m","p","l","e","s",":">>, 1)   \* "Examples:"
    IN  IF clause = 0 THEN {}
        ELSE {i \in clause..Len(d) :
                 /\ d[i] = "'"
                 /\ ~(1 < i /\ i < Len(d) /\ IsLetter(d[i - 1]) /\ IsLetter(d[i + 1]))}

\* The single-quoted example items written in a description, in order.
ItemsAsWritten(d) ==
    LET quotes == Ascending(ItemQuotes(d))
    IN  [k \in 1..(Len(quotes) \div 2) |->
            SubSeq(d, quotes[2 * k - 1] + 1, quotes[2 * k] - 1)]

HasExamplesClause(d) == d # None /\ Contains(d, <<"E","x","a","m","p","l","e","s",":"," ","'">>)   \* "Examples: '"

\* The example lines of an assembled description.
ExampleLines(text) == SelectSeq(text, LAMBDA line : StartsWith(line, <<" "," ","-"," ">>))   \* "  - "

Described == Returned("get_comprehensive_field_description")

\* C14 (as stated): when a field's description holds an Examples: 'a', 'b'
\* clause, the assembled description does not hold that clause and holds
\* one example line "  - item" per quoted item, in the original order.
C14_ExamplesListed ==
    (Described /\ HasExamplesClause(args.field_info.description)) =>
        /\ \A i \in 1..Len(out) : ~Contains(out[i], <<"E","x","a","m","p","l","e","s",":"," ","'">>)   \* "Examples: '"
        /\ ExampleLines(out)
             = [k \in 1..Len(ItemsAsWritten(args.field_info.description)) |->
                   <<" "," ","-"," ">> \o ItemsAsWritten(args.field_info.description)[k]]   \* "  - "

Extracted == Returned("extract_examples_from_description")

\* C15 (as stated): for every description declared in the schema, the list
\* extract_examples_from_description returns is the list of the
\* single-quoted items written in the description, each complete and
\* unmodified, also when an item holds an apostrophe.
C15_ItemsComplete ==
    (Extracted /\ args.description \in SchemaDescriptions) =>
        out.examples = ItemsAsWritten(args.description)

\* The enumerated choice set a type hint names, directly or inside an
\* optional wrapper; <<>> when it names none.
ChoiceSets(field_type) ==
    IF field_type.kind = "enum" THEN << field_type.class >>
    ELSE IF field_type.kind = "Union"
         THEN LET enums == Ascending({k \in 1..Len(field_type.args) :
                                          field_type.args[k].kind = "enum"})
              IN  [j \in 1..Len(enums) |-> field_type.args[enums[j]].class]
         ELSE <<>>

\* The lines of a class's source that declare a member, in order.
MemberLines(enum_class) ==
    SelectSeq(enum_class.source, LAMBDA line : Contains(line, <<" ","="," ","\"">>))   \* " = \""

\* The label declared for the k-th member: the comment of its own line.
DeclaredLabel(enum_class, k) ==
    LET line == MemberLines(enum_class)[k]
        hash == FindFrom(line, <<"#">>, 1)
    IN  IF hash = 0 THEN <<>> ELSE strip(SubSeq(line, hash + 1, Len(line)))

\* Every member is declared on a line of its own that carries a label.
AllLabelled(enum_class) ==
    /\ Len(MemberLines(enum_class)) = Len(enum_class.members)
    /\ \A k \in 1..Len(enum_class.members) :
           /\ Contains(MemberLines(enum_class)[k],
                       <<" ","="," ","\"">> \o enum_class.members[k] \o <<"\"">>)   \* " = \"" "\""
           /\ DeclaredLabel(enum_class, k) # <<>>

\* The choice lines of an assembled description.
ChoiceLines(text) == SelectSeq(text, LAMBDA line : StartsWith(line, <<" "," ","U+2022"," ">>))   \* "  U+2022 "

\* C16: for a field whose type is an enumerated choice set, or an optional
\* wrapper around one, the assembled description holds one "value: label"
\* line per member, with the member's declared value and its own declared
\* label, in declaration order, none missing, repeated or paired with
\* another member's label; a field of any other type gets no choices block.
\* (Labels are read from the source of the choice set: the case in which
\* that source cannot be read is C20's.)
C16_ChoicesListed ==
    Described =>
        IF ChoiceSets(args.field_type) = <<>>
        THEN /\ ChoiceLines(out) = <<>>
             /\ LineIndexes(out, <<"*","*","A","v","a","i","l","a","b","l","e"," ","c","h","o","i","c","e","s",":","*","*">>) = {}   \* "**Available choices:**"
        ELSE LET enum_class == ChoiceSets(args.field_type)[1]
             IN  (args.source_available /\ AllLabelled(enum_class)) =>
                     /\ ChoiceLines(out)
                          = [k \in 1..Len(enum_class.members) |->
                                <<" "," ","U+2022"," ">> \o enum_class.members[k] \o <<":"," ">>   \* "  U+2022 " ": "
                                       \o DeclaredLabel(enum_class, k)]
                     /\ Cardinality(LineIndexes(out, <<"*","*","A","v","a","i","l","a","b","l","e"," ","c","h","o","i","c","e","s",":","*","*">>)) = 1   \* "**Available choices:**"
                     /\ StartsWith(out[LineIndex(out, <<"*","*","A","v","a","i","l","a","b","l","e"," ","c","h","o","i","c","e","s",":","*","*">>) + 1], <<" "," ","U+2022"," ">>)   \* "**Available choices:**" "  U+2022 "

\* C16 witness: a field of type Optional[ShotType] was described; the line
\* of wide_shot carries its own label, not the one of extreme_wide_shot.
C16_Witness ==
    /\ Described
    /\ args.source_available
    /\ ChoiceSets(args.field_type) = << ShotTypeClass >>
    /\ \E i \in 1..Len(out) : out[i] = <<" "," ","U+2022"," ","w","i","d","e","_","s","h","o","t",":"," ","S","h","o","w","s"," ","f","u","l","l"," ","s","u","b","j","e","c","t"," ","a","n","d"," ","s","u","r","r","o","u","n","d","i","n","g","s">>   \* "  U+2022 wide_shot: Shows full subject and surroundings"

\* The call's field is one of the fields the schema declares.
SchemaField ==
    [field_info |-> args.field_info, field_type |-> args.field_type] \in SchemaFieldArgs

\* The note of each length bound a field declares, the minimum first.
DeclaredBoundNotes(field_info) ==
    [k \in 1..Len(field_info.metadata) |->
        IF "min_length" \in DOMAIN field_info.metadata[k]
        THEN <<"m","i","n","i","m","u","m"," ">> \o str_int(field_info.metadata[k].min_length) \o <<" ","c","h","a","r","a","c","t","e","r","s">>   \* "minimum " " characters"
        ELSE <<"m","a","x","i","m","u","m"," ">> \o str_int(field_info.metadata[k].max_length) \o <<" ","c","h","a","r","a","c","t","e","r","s">>]   \* "maximum " " characters"

ConstraintLines(text) == {i \in 1..Len(text) : StartsWith(text[i], <<"*","*","C","o","n","s","t","r","a","i","n","t","s",":","*","*">>)}   \* "**Constraints:**"

\* C17 (as stated): for a schema field that declares a minimum or maximum
\* character length the assembled description ends with one constraints
\* line naming each declared bound, comma-separated, the minimum first; a
\* field that declares no length bound gets no constraints line.
C17_ConstraintsLine ==
    (Described /\ SchemaField) =>
        IF DeclaredBoundNotes(args.field_info) = <<>>
        THEN ConstraintLines(out) = {}
        ELSE /\ ConstraintLines(out) = {Len(out)}
             /\ out[Len(out)] = <<"*","*","C","o","n","s","t","r","a","i","n","t","s",":","*","*"," ">>   \* "**Constraints:** "
                                  \o join(<<","," ">>, DeclaredBoundNotes(args.field_info))   \* ", "

\* The index of the first line of text that satisfies Test, or 0.
FirstLine(text, Test(_)) ==
    IF \E i \in 1..Len(text) : Test(text[i])
    THEN CHOOSE i \in 1..Len(text) : Test(text[i]) /\ \A j \in 1..(i - 1) : ~Test(text[j])
    ELSE 0

\* C18 (as stated): the assembled description consists of the cleaned
\* description, then the examples block if examples were extracted, then
\* the choices block if the field is enumerated, then the constraints block
\* if bounds are declared: each block is present exactly when it applies,
\* and the blocks present stand in this order.
C18_BlocksInOrder ==
    (Described /\ args.field_info.description # None /\ args.field_info.description # <<>>) =>
        LET r == extract_examples_from_description(args.field_info.description)
            examples == FirstLine(out, LAMBDA line : line = <<"*","*","E","x","a","m","p","l","e","s",":","*","*">>)   \* "**Examples:**"
            choices == FirstLine(out, LAMBDA line : line = <<"*","*","A","v","a","i","l","a","b","l","e"," ","c","h","o","i","c","e","s",":","*","*">>)   \* "**Available choices:**"
            constraints == FirstLine(out, LAMBDA line : StartsWith(line, <<"*","*","C","o","n","s","t","r","a","i","n","t","s",":","*","*">>))   \* "**Constraints:**"
            last == Len(out) + 1
            Place(i) == IF i = 0 THEN last ELSE i
        IN  /\ out[1] = r.clean_description
            /\ (examples > 0) = (r.examples # <<>>)
            /\ (choices > 0) = (ChoiceSets(args.field_type) # <<>>)
            /\ (constraints > 0) = (DeclaredBoundNotes(args.field_info) # <<>>)
            /\ examples > 0 => (1 < examples /\ examples < Place(choices)
                                /\ examples < Place(constraints))
            /\ choices > 0 => (1 < choices /\ choices < Place(constraints))
            /\ constraints > 0 => 1 < constraints

\* The placeholders that stand for a label that cannot be introspected:
\* "Option for" and the lower-cased name of the enum, with or without its
\* "Type" part.
Placeholders(enum_class) ==
    { <<"O","p","t","i","o","n"," ","f","o","r"," ">> \o lower(enum_class.name),   \* "Option for "
      <<"O","p","t","i","o","n"," ","f","o","r"," ">> \o lower(replace_str(enum_class.name, <<"T","y","p","e">>, <<>>)) }   \* "Option for " "Type"

\* The label of the k-th member can be introspected.
Introspected(enum_class, k, source_available) ==
    /\ source_available
    /\ k <= Len(MemberLines(enum_class))
    /\ DeclaredLabel(enum_class, k) # <<>>

\* C20: building never fails. get_enum_choices returns exactly one line per
\* member, labelled with the member's comment or, when that cannot be
\* introspected (no comment, or the source of the enum is unavailable),
\* with a placeholder "Option for <name derived from the enum name>"; a
\* field without description, examples or constraints is described without
\* those pieces; no call of the builder or of its helpers raises.
C20_NeverFails ==
    /\ pc # "raised"
    /\ Returned("get_enum_choices") =>
           /\ Len(out) = Len(args.enum_class.members)
           /\ \A k \in 1..Len(out) :
                  \E label \in (IF Introspected(args.enum_class, k, args.source_available)
                                THEN {DeclaredLabel(args.enum_class, k)}
                                ELSE Placeholders(args.enum_class)) :
                      out[k] = <<" "," ","U+2022"," ">> \o args.enum_class.members[k] \o <<":"," ">> \o label   \* "  U+2022 " ": "
    /\ Described =>
           /\ ~Truthy(args.field_info.description) =>
                  /\ LineIndexes(out, <<"*","*","E","x","a","m","p","l","e","s",":","*","*">>) = {}   \* "**Examples:**"
                  /\ ExampleLines(out) = <<>>
                  /\ ChoiceSets(args.field_type) = <<>> => out = << <<>> >>
                  /\ ChoiceSets(args.field_type) # <<>> =>
                         out[2] = <<"*","*","A","v","a","i","l","a","b","l","e"," ","c","h","o","i","c","e","s",":","*","*">>   \* "**Available choices:**"
           /\ (Truthy(args.field_info.description)
               /\ extract_examples_from_description(args.field_info.description).examples = <<>>) =>
                  /\ LineIndexes(out, <<"*","*","E","x","a","m","p","l","e","s",":","*","*">>) = {}   \* "**Examples:**"
                  /\ ExampleLines(out) = <<>>
           /\ DeclaredBoundNotes(args.field_info) = <<>> => ConstraintLines(out) = {}
    /\ \A cls \in {"ImagePrompt", "VideoPrompt"} :
           (Returned(Builder(cls)) /\ ~args.source_available) =>
               \E i \in 1..Len(out) :
                   out[i] = <<" "," ","U+2022"," ","1","6",":","9",":"," ","O","p","t","i","o","n"," ","f","o","r"," ","a","s","p","e","c","t","r","a","t","i","o">>   \* "  U+2022 16:9: Option for aspectratio"

\* C20 witness: the source of LensType could not be read and
\* get_enum_choices returned six placeholder lines.
C20_Witness ==
    /\ Returned("get_enum_choices")
    /\ ~args.source_available
    /\ args.enum_class = LensTypeClass
    /\ Len(out) = 6
    /\ out[1] = <<" "," ","U+2022"," ","w","i","d","e","_","a","n","g","l","e",":"," ","O","p","t","i","o","n"," ","f","o","r"," ","l","e","n","s","t","y","p","e">>   \* "  U+2022 wide_angle: Option for lenstype"

\* sub occurs in s at index i.
OccursAt(s, sub, i) ==
    i >= 1 /\ i + Len(sub) - 1 <= Len(s) /\ SubSeq(s, i, i + Len(sub) - 1) = sub

\* The description holds the literal word "Example" or "Examples" followed
\* by a colon.
HasExampleToken(d) ==
    \E i \in 1..Len(d) :
        /\ OccursAt(d, <<"E","x","a","m","p","l","e",":">>, i) \/ OccursAt(d, <<"E","x","a","m","p","l","e","s",":">>, i)   \* "Example:" "Examples:"
        /\ i = 1 \/ ~IsLetter(d[i - 1])

\* C21 (as stated): extraction is triggered only by the literal word
\* "Example" or "Examples" followed by a colon: for a description without
\* such a token, whatever quoted items it lists under other phrasing,
\* extract_examples_from_description returns the description unchanged and
\* an empty list of examples.
C21_OnlyExampleToken ==
    (Extracted /\ ~HasExampleToken(args.description)) =>
        /\ out.clean_description = args.description
        /\ out.examples = <<>>

\* v with a backslash put before each double quote.
RECURSIVE EscapeQuotes(_)
EscapeQuotes(v) ==
    IF v = <<>> THEN <<>>
    ELSE (IF Head(v) = "\"" THEN << "\\", "\"" >> ELSE << Head(v) >>)
         \o EscapeQuotes(Tail(v))

\* One "key": "value" line per entry of the mapping, in its order, each but
\* the last followed by a comma.
StatedExampleLines(example) ==
    [i \in 1..Len(example) |->
        <<" "," ","\"">> \o example[i][1] \o <<"\"",":"," ","\"">> \o EscapeQuotes(example[i][2]) \o <<"\"">>   \* "  \"" "\": \"" "\""
            \o (IF i < Len(example) THEN <<",">> ELSE <<>>)]

\* The lines of the Working Example block between its braces.
ExampleBody(text) ==
    SubSeq(text, LineIndex(text, <<"{","{">>) + 1, LineIndex(text, <<"}","}">>) - 1)   \* "{{" "}}"

\* The template without its Working Example block.
WithoutExample(text) ==
    SubSeq(text, 1, LineIndex(text, <<"#","#"," ","W","o","r","k","i","n","g"," ","E","x","a","m","p","l","e">>) - 2)   \* "## Working Example"
    \o SubSeq(text,
              LineIndex(text, <<"U","s","e"," ","t","h","i","s"," ","a","s"," ","a"," ","r","e","f","e","r","e","n","c","e"," ","f","o","r"," ","t","h","e"," ","l","e","v","e","l"," ","o","f"," ","d","e","t","a","i","l"," ","a","n","d"," ","p","r","o","f","e","s","s","i","o","n","a","l"," ","t","e","r","m","i","n","o","l","o","g","y"," ","e","x","p","e","c","t","e","d",".">>) + 1,   \* "Use this as a reference for the level of detail and professional terminology expected."
              Len(text))

\* The template a builder assembles when the schema declares no example.
TemplateNoExample(cls, source_available) ==
    IF cls = "ImagePrompt"
    THEN ImageSystemContent(
             RequiredSection(<<"i","m","a","g","e">>,   \* "image"
                 FieldEntries(ImagePromptFields, ImagePrompt, ImagePromptDescription,
                              ImagePromptTypeHints, TRUE, source_available)),
             FieldEntries(ImagePromptFields, ImagePrompt, ImagePromptDescription,
                          ImagePromptTypeHints, FALSE, source_available),
             ImageTechnicalGuidance, ImageNegativePromptGuidance,
             format_example_section(<<>>))
    ELSE VideoSystemContent(
             RequiredSection(<<"v","i","d","e","o">>,   \* "video"
                 FieldEntries(VideoPromptFields, VideoPrompt, VideoPromptDescription,
                              VideoPromptTypeHints, TRUE, source_available)),
             FieldEntries(VideoPromptFields, VideoPrompt, VideoPromptDescription,
                          VideoPromptTypeHints, FALSE, source_available),
             VideoTechnicalGuidance, VideoNegativePromptGuidance,
             format_example_section(<<>>))

\* C26: the Working Example block is rendered from the example mapping the
\* schema configuration declares: one "key": "value" line per entry, in the
\* mapping's order, double quotes inside values backslash-escaped, the lines
\* separated by commas; for no example, or an empty one, there is no block
\* and the rest of the template is what it is with the block.
C26_ExampleBlock ==
    /\ Returned("format_example_section") =>
           IF args.example = <<>>
           THEN out = << <<>> >>
           ELSE /\ Cardinality(LineIndexes(out, <<"#","#"," ","W","o","r","k","i","n","g"," ","E","x","a","m","p","l","e">>)) = 1   \* "## Working Example"
                /\ Cardinality(LineIndexes(out, <<"{","{">>)) = 1   \* "{{"
                /\ Cardinality(LineIndexes(out, <<"}","}">>)) = 1   \* "}}"
                /\ ExampleBody(out) = StatedExampleLines(args.example)
    /\ \A cls \in {"ImagePrompt", "VideoPrompt"} :
           Returned(Builder(cls)) =>
               /\ Cardinality(LineIndexes(out, <<"{","{">>)) = 1   \* "{{"
               /\ Cardinality(LineIndexes(out, <<"}","}">>)) = 1   \* "}}"
               /\ ExampleBody(out) = StatedExampleLines(get_schema_example(cls))
               /\ Len(ExampleBody(out)) = (IF cls = "ImagePrompt" THEN 15 ELSE 12)
               /\ WithoutExample(out) = TemplateNoExample(cls, args.source_available)
               /\ LineIndexes(WithoutExample(out), <<"#","#"," ","W","o","r","k","i","n","g"," ","E","x","a","m","p","l","e">>) = {}   \* "## Working Example"

\* C26 witness: an example whose value holds double quotes was rendered and
\* the block holds its line with the quotes escaped.
C26_Witness ==
    /\ Returned("format_example_section")
    /\ Len(args.example) = 1
    /\ ExampleBody(out) = << <<" "," ","\"","s","u","b","j","e","c","t","\"",":"," ","\"","a"," ","s","i","g","n"," ","t","h","a","t"," ","r","e","a","d","s"," ","\\","\"","o","p","e","n","\\","\"","\"">> >>   \* "  \"subject\": \"a sign that reads \\\"open\\\"\""

(***************************************************************************)
(* run_llm (llm.py, lines 57-129).  One call is followed from its          *)
(* arguments to its return value or to the exception that leaves it.  The  *)
(* environment of the call is part of args: the value of                   *)
(* OPENROUTER_API_KEY and what the LLM collaborator answers.  effects      *)
(* lists, in order, the calls made to the collaborators and the files      *)
(* read.  The text of the system prompt is the subject of TemplateSpec;    *)
(* here a system prompt is known by the name of the builder called.        *)
(***************************************************************************)

\* The name of a file that exists, and of one that does not.
ReferenceImage == <<"r","e","f",".","j","p","g">>   \* "ref.jpg"
MissingImage == <<"g","o","n","e",".","j","p","g">>   \* "gone.jpg"

\* The structured results the LLM collaborator answers with:
\* with_structured_output(response_class) yields an instance of
\* response_class (llm.py, lines 119-124).
Replies(response_class) ==
    IF response_class = "ImagePrompt"
    THEN [required |-> NewModel("ImagePrompt", ImageRequired),
          full     |-> NewModel("ImagePrompt", ImageFull)]
    ELSE [required |-> NewModel("VideoPrompt", VideoRequired),
          full     |-> NewModel("VideoPrompt", VideoFull)]

RunLlmCalls ==
    [fn            : {"run_llm"},
     user_request  : {None, <<>>, <<"a"," ","r","e","d"," ","f","o","x">>},   \* "a red fox"
     media_type    : {<<"i","m","a","g","e">>, <<"v","i","d","e","o">>, <<"a","u","d","i","o">>, None},   \* "image" "video" "audio"
     image_path    : {None, <<>>, ReferenceImage, MissingImage},
     return_string : BOOLEAN,
     api_key       : {None, <<"s","k","-","o","r","-","1">>},   \* "sk-or-1"
     reply         : {"raise", "required", "full"}]

\* A local variable that has not been assigned yet.
Unbound == "unbound"

RunLlmFrame ==
    [fn |-> "run_llm", llm |-> Unbound, system_prompt |-> Unbound,
     response_class |-> Unbound, content |-> Unbound]

RunLlmInit ==
    /\ args \in RunLlmCalls
    /\ prompt = NoPrompt
    /\ pc = "call"
    /\ out = None
    /\ nassign = 0
    /\ effects = <<>>
    /\ files = {ReferenceImage}
    /\ frame = RunLlmFrame

\* raise exc(msg): the exception leaves run_llm.
Raise(exc, msg) ==
    /\ pc' = "raised"
    /\ out' = [exc |-> exc, msg |-> msg]

\* Faulty variant: the two checks are made in the other order.
RunLlm_Validate_InputFirst ==
    /\ pc = "call"
    /\ IF ~Truthy(args.user_request) /\ ~Truthy(args.image_path)
       THEN Raise("ValueError", <<"E","i","t","h","e","r"," ","u","s","e","r","_","r","e","q","u","e","s","t"," ","o","r"," ","i","m","a","g","e","_","p","a","t","h"," ","m","u","s","t"," ","b","e"," ","p","r","o","v","i","d","e","d">>)   \* "Either user_request or image_path must be provided"
       ELSE IF args.media_type \notin {<<"i","m","a","g","e">>, <<"v","i","d","e","o">>}   \* "image" "video"
       THEN Raise("ValueError", <<"m","e","d","i","a","_","t","y","p","e"," ","m","u","s","t"," ","b","e"," ","'","i","m","a","g","e","'"," ","o","r"," ","'","v","i","d","e","o","'">>)   \* "media_type must be 'image' or 'video'"
       ELSE pc' = "validated" /\ out' = out
    /\ UNCHANGED <<args, prompt, nassign, effects, files, frame>>

\* llm.py, lines 79-84
RunLlm_Validate ==
    /\ pc = "call"
    /\ IF args.media_type \notin {<<"i","m","a","g","e">>, <<"v","i","d","e","o">>}   \* "image" "video"
       THEN Raise("ValueError", <<"m","e","d","i","a","_","t","y","p","e"," ","m","u","s","t"," ","b","e"," ","'","i","m","a","g","e","'"," ","o","r"," ","'","v","i","d","e","o","'">>)   \* "media_type must be 'image' or 'video'"
       ELSE IF ~Truthy(args.user_request) /\ ~Truthy(args.image_path)
       THEN Raise("ValueError", <<"E","i","t","h","e","r"," ","u","s","e","r","_","r","e","q","u","e","s","t"," ","o","r"," ","i","m","a","g","e","_","p","a","t","h"," ","m","u","s","t"," ","b","e"," ","p","r","o","v","i","d","e","d">>)   \* "Either user_request or image_path must be provided"
       ELSE pc' = "validated" /\ out' = out
    /\ UNCHANGED <<args, prompt, nassign, effects, files, frame>>

\* llm = create_openrouter_llm(model)   (llm.py, lines 86 and 46-54)
create_openrouter_llm ==
    /\ pc = "validated"
    /\ IF ~Truthy(args.api_key)
       THEN /\ Raise("ValueError", <<"O","P","E","N","R","O","U","T","E","R","_","A","P","I","_","K","E","Y"," ","e","n","v","i","r","o","n","m","e","n","t"," ","v","a","r","i","a","b","l","e"," ","i","s"," ","r","e","q","u","i","r","e","d">>)   \* "OPENROUTER_API_KEY environment variable is required"
            /\ UNCHANGED <<effects, frame>>
       ELSE /\ pc' = "client" /\ out' = out
            /\ effects' = Append(effects, "ChatOpenAI")
            /\ frame' = [frame EXCEPT !.llm = "ChatOpenAI"]
    /\ UNCHANGED <<args, prompt, nassign, files>>

\* Faulty variant: the video builder is paired with the image record type.
RunLlm_SelectTemplate_Mixed ==
    /\ pc = "client"
    /\ IF args.media_type = <<"i","m","a","g","e">>   \* "image"
       THEN /\ effects' = Append(effects, "create_image_prompt_template")
            /\ frame' = [frame EXCEPT !.system_prompt = "create_image_prompt_template",
                                      !.response_class = "ImagePrompt"]
       ELSE /\ effects' = Append(effects, "create_video_prompt_template")
            /\ frame' = [frame EXCEPT !.system_prompt = "create_video_prompt_template",
                                      !.response_class = "ImagePrompt"]
    /\ pc' = "template"
    /\ UNCHANGED <<args, prompt, out, nassign, files>>

\* llm.py, lines 89-94
RunLlm_SelectTemplate ==
    /\ pc = "client"
    /\ IF args.media_type = <<"i","m","a","g","e">>   \* "image"
       THEN /\ effects' = Append(effects, "create_image_prompt_template")
            /\ frame' = [frame EXCEPT !.system_prompt = "create_image_prompt_template",
                                      !.response_class = "ImagePrompt"]
       ELSE /\ effects' = Append(effects, "create_video_prompt_template")
            /\ frame' = [frame EXCEPT !.system_prompt = "create_video_prompt_template",
                                      !.response_class = "VideoPrompt"]
    /\ pc' = "template"
    /\ UNCHANGED <<args, prompt, out, nassign, files>>

\* llm.py, line 102
RequestText ==
    IF Truthy(args.user_request)
    THEN <<"C","r","e","a","t","e"," ","a"," ">> \o args.media_type \o <<" ","g","e","n","e","r","a","t","i","o","n"," ","p","r","o","m","p","t"," ","b","a","s","e","d"," ","o","n"," ","t","h","i","s"," ","r","e","q","u","e","s","t",":"," ">> \o args.user_request   \* "Create a " " generation prompt based on this request: "
    ELSE <<"R","e","v","e","r","s","e"," ","e","n","g","i","n","e","e","r"," ","t","h","e"," ","i","m","a","g","e"," ","a","n","d"," ","c","r","e","a","t","e"," ","a"," ","p","r","o","m","p","t"," ","f","o","r"," ","g","e","n","e","r","a","t","i","n","g"," ","i","t">>   \* "Reverse engineer the image and create a prompt for generating it"

\* llm.py, lines 96-116, with image_to_base64 (lines 17-34): the image is
\* read when a path is given, and a path that names no file raises.
RunLlm_Messages ==
    /\ pc = "template"
    /\ IF ~Truthy(args.image_path)
       THEN /\ pc' = "messages" /\ out' = out
            /\ effects' = effects
            /\ frame' = [frame EXCEPT !.content = <<[type |-> "text", text |-> RequestText]>>]
       ELSE IF args.image_path \notin files
       THEN /\ Raise("FileNotFoundError", <<"I","m","a","g","e"," ","f","i","l","e"," ","n","o","t"," ","f","o","u","n","d",":"," ">> \o args.image_path)   \* "Image file not found: "
            /\ effects' = effects
            /\ frame' = [frame EXCEPT !.content = <<[type |-> "text", text |-> RequestText]>>]
       ELSE /\ pc' = "messages" /\ out' = out
            /\ effects' = Append(effects, "read_image")
            /\ frame' = [frame EXCEPT !.content =
                            <<[type |-> "text", text |-> RequestText],
                              [type |-> "image_url", text |-> <<"d","a","t","a",":","i","m","a","g","e","/","j","p","e","g",";","b","a","s","e","6","4",",">> \o args.image_path]>>]   \* "data:image/jpeg;base64,"
    /\ UNCHANGED <<args, prompt, nassign, files>>

\* structured_result = llm.with_structured_output(response_class, ...)
\*                        .invoke(messages)        (llm.py, lines 119-124)
\* The collaborator answers with an instance or fails.
RunLlm_Invoke ==
    /\ pc = "messages"
    /\ effects' = Append(effects, "invoke")
    /\ IF args.reply = "raise"
       THEN Raise("Exception", <<"L","L","M"," ","c","a","l","l"," ","f","a","i","l","e","d">>) /\ prompt' = prompt   \* "LLM call failed"
       ELSE /\ prompt' = Replies(frame.response_class)[args.reply]
            /\ pc' = "invoked" /\ out' = out
    /\ UNCHANGED <<args, nassign, files, frame>>

\* llm.py, lines 126-129
RunLlm_Return ==
    /\ pc = "invoked"
    /\ out' = IF args.return_string THEN reponse_to_string(prompt) ELSE prompt
    /\ pc' = "returned"
    /\ UNCHANGED <<args, prompt, nassign, effects, files, frame>>

RunLlmNext ==
    \/ RunLlm_Validate
    \/ create_openrouter_llm
    \/ RunLlm_SelectTemplate
    \/ RunLlm_Messages
    \/ RunLlm_Invoke
    \/ RunLlm_Return

RunLlmSpec == RunLlmInit /\ [][RunLlmNext]_vars

\* C28: run_llm answers a media_type other than "image" and "video", and a
\* call with neither user_request nor image_path, with ValueError before any
\* work: no LLM client, no template, no file read, no invocation; the
\* media_type is checked first, so its message wins when both are wrong.
C28_RejectedFirst ==
    LET bad_media == args.media_type \notin {<<"i","m","a","g","e">>, <<"v","i","d","e","o">>}   \* "image" "video"
        no_input  == ~Truthy(args.user_request) /\ ~Truthy(args.image_path)
    IN  (pc # "call" /\ (bad_media \/ no_input)) =>
            /\ pc = "raised"
            /\ out.exc = "ValueError"
            /\ out.msg = IF bad_media
                         THEN <<"m","e","d","i","a","_","t","y","p","e"," ","m","u","s","t"," ","b","e"," ","'","i","m","a","g","e","'"," ","o","r"," ","'","v","i","d","e","o","'">>   \* "media_type must be 'image' or 'video'"
                         ELSE <<"E","i","t","h","e","r"," ","u","s","e","r","_","r","e","q","u","e","s","t"," ","o","r"," ","i","m","a","g","e","_","p","a","t","h"," ","m","u","s","t"," ","b","e"," ","p","r","o","v","i","d","e","d">>   \* "Either user_request or image_path must be provided"
            /\ effects = <<>>
            /\ frame = RunLlmFrame
            /\ prompt = NoPrompt

C28_Witness ==
    /\ pc = "raised"
    /\ args.media_type = <<"a","u","d","i","o">>   \* "audio"
    /\ args.user_request = <<>> /\ args.image_path = None
    /\ args.api_key # None
    /\ out.msg = <<"m","e","d","i","a","_","t","y","p","e"," ","m","u","s","t"," ","b","e"," ","'","i","m","a","g","e","'"," ","o","r"," ","'","v","i","d","e","o","'">>   \* "media_type must be 'image' or 'video'"

\* C29: run_llm builds the image template and asks for an ImagePrompt when
\* media_type is "image", the video template and a VideoPrompt when it is
\* "video"; it returns reponse_to_string(S) of the LLM's structured result S
\* when return_string is set and S itself otherwise, and S is not changed.
C29_PairedAndReturned ==
    LET image == args.media_type = <<"i","m","a","g","e">>   \* "image"
        cls   == IF image THEN "ImagePrompt" ELSE "VideoPrompt"
        built == IF image THEN "create_image_prompt_template"
                          ELSE "create_video_prompt_template"
        other == IF image THEN "create_video_prompt_template"
                          ELSE "create_image_prompt_template"
        S     == Replies(cls)[args.reply]
    IN  /\ frame.system_prompt # Unbound =>
               /\ frame.system_prompt = built
               /\ frame.response_class = cls
               /\ \E i \in 1..Len(effects) : effects[i] = built
               /\ \A i \in 1..Len(effects) : effects[i] # other
        /\ pc \in {"invoked", "returned"} => prompt = S
        /\ pc = "returned" =>
               out = IF args.return_string THEN reponse_to_string(S) ELSE S

C29_Witness ==
    /\ pc = "returned"
    /\ args.media_type = <<"v","i","d","e","o">>   \* "video"
    /\ args.return_string
    /\ args.reply = "full"
    /\ frame.response_class = "VideoPrompt"
    /\ out = reponse_to_string(NewModel("VideoPrompt", VideoFull))

(***************************************************************************)
(* generate_with_image (app.py, lines 87-129): one request to              *)
(* /api/generate-with-image, from its form fields to the response or the   *)
(* HTTPException that leaves the handler.  files is the content of         *)
(* UPLOADS_DIR.  The environment of the request is part of args: whether   *)
(* saving the upload works, which call of run_llm fails (if any), and      *)
(* whether the file can be deleted.                                        *)
(***************************************************************************)

\* Largest num_outputs explored.
MaxOutputs == 2

\* str.startswith
startswith(s, prefix) ==
    /\ Len(s) >= Len(prefix)
    /\ SubSeq(s, 1, Len(prefix)) = prefix

\* Path(name).suffix for a name without directories: from the last dot on,
\* unless the name has no dot or only a leading one.
suffix(name) ==
    LET dots == {i \in 2..Len(name) : name[i] = "."}
    IN  IF dots = {} THEN <<>>
        ELSE SubSeq(name, CHOOSE i \in dots : \A j \in dots : j <= i, Len(name))

\* image = None: the request has no image part.
NoUpload == [present |-> FALSE, content_type |-> None, filename |-> None]

Uploads ==
    {NoUpload} \cup
    [present      : {TRUE},
     content_type : {None, <<"i","m","a","g","e","/","p","n","g">>, <<"i","m","a","g","e","/">>, <<"t","e","x","t","/","p","l","a","i","n">>, <<"i","m","a","g","e","r","y">>},   \* "image/png" "image/" "text/plain" "imagery"
     filename     : {None, <<"c","a","t",".","p","n","g">>, <<"c","a","t">>}]   \* "cat.png" "cat"

\* The file of another request, already in UPLOADS_DIR.
OtherUpload == <<"0","b","1","c",".","p","n","g">>   \* "0b1c.png"

\* str(uuid.uuid4()): a name no other file carries.
NewUuid == <<"7","a","2","f">>   \* "7a2f"

GenerateWithImageCalls ==
    [fn          : {"generate_with_image"},
     mode        : {<<"i","m","a","g","e">>, <<"v","i","d","e","o">>, <<"a","u","d","i","o">>},   \* "image" "video" "audio"
     num_outputs : 0..MaxOutputs,
     text_input  : {None, <<"a"," ","r","e","d"," ","f","o","x">>},   \* "a red fox"
     image       : Uploads,
     save        : {"ok", "open fails", "write fails"},
     fail_at     : 0..MaxOutputs,
     unlink_ok   : BOOLEAN]

\* app.py, lines 90 and 93
AppFrame ==
    [fn |-> "generate_with_image", image_path |-> None, prompts |-> <<>>,
     i |-> 0, pending |-> Unbound]

AppInit ==
    /\ args \in GenerateWithImageCalls
    /\ prompt = NoPrompt
    /\ pc = "call"
    /\ out = None
    /\ nassign = 0
    /\ effects = <<>>
    /\ files = {OtherUpload}
    /\ frame = AppFrame

HTTPException(status_code, detail) ==
    [exc |-> "HTTPException", status_code |-> status_code, detail |-> detail]

\* except Exception as e: raise HTTPException(500, ...)   (lines 121-122)
GenerationFailed(msg) == HTTPException(500, <<"G","e","n","e","r","a","t","i","o","n"," ","f","a","i","l","e","d",":"," ">> \o msg)   \* "Generation failed: "

\* The try block is left with a value to return or an exception to raise;
\* the finally block runs next.
Leave(pending) ==
    /\ pc' = "finally"
    /\ frame' = [frame EXCEPT !.pending = pending]

\* app.py, lines 96-99
App_CheckContentType ==
    /\ pc = "call"
    /\ IF ~args.image.present
       THEN pc' = "generate" /\ frame' = frame
       ELSE IF ~Truthy(args.image.content_type) \/ ~startswith(args.image.content_type, <<"i","m","a","g","e","/">>)   \* "image/"
       THEN Leave(HTTPException(400, <<"I","n","v","a","l","i","d"," ","f","i","l","e"," ","t","y","p","e","."," ","P","l","e","a","s","e"," ","u","p","l","o","a","d"," ","a","n"," ","i","m","a","g","e"," ","f","i","l","e",".">>))   \* "Invalid file type. Please upload an image file."
       ELSE pc' = "accepted" /\ frame' = frame
    /\ UNCHANGED <<args, prompt, out, nassign, effects, files>>

\* app.py, lines 102-104
UniquePath ==
    NewUuid \o (IF Truthy(args.image.filename) THEN suffix(args.image.filename) ELSE <<".","j","p","g">>)   \* ".jpg"

\* app.py, lines 102-109: image_path is bound before the file is opened;
\* open() may fail (no file appears) and write() may fail (the file exists).
App_SaveUpload ==
    /\ pc = "accepted"
    /\ effects' = Append(effects, "open")
    /\ CASE args.save = "ok" ->
              /\ files' = files \cup {UniquePath}
              /\ pc' = "generate"
              /\ frame' = [frame EXCEPT !.image_path = UniquePath]
         [] args.save = "open fails" ->
              /\ files' = files
              /\ pc' = "finally"
              /\ frame' = [frame EXCEPT !.image_path = UniquePath,
                                        !.pending = GenerationFailed(<<"o","p","e","n"," ","f","a","i","l","e","d">>)]   \* "open failed"
         [] args.save = "write fails" ->
              /\ files' = files \cup {UniquePath}
              /\ pc' = "finally"
              /\ frame' = [frame EXCEPT !.image_path = UniquePath,
                                        !.pending = GenerationFailed(<<"w","r","i","t","e"," ","f","a","i","l","e","d">>)]   \* "write failed"
    /\ UNCHANGED <<args, prompt, out, nassign>>

\* run_llm(user_request=user_text, media_type=mode, image_path=...,
\* return_string=True) as the handler sees it: the exception's message, or
\* the string returned (llm.py, lines 79-129).
RunLlmResult(k) ==
    IF args.mode \notin {<<"i","m","a","g","e">>, <<"v","i","d","e","o">>}   \* "image" "video"
    THEN [raised |-> TRUE, value |-> <<"m","e","d","i","a","_","t","y","p","e"," ","m","u","s","t"," ","b","e"," ","'","i","m","a","g","e","'"," ","o","r"," ","'","v","i","d","e","o","'">>]   \* "media_type must be 'image' or 'video'"
    ELSE IF Truthy(frame.image_path) /\ frame.image_path \notin files
    THEN [raised |-> TRUE, value |-> <<"I","m","a","g","e"," ","f","i","l","e"," ","n","o","t"," ","f","o","u","n","d",":"," ">> \o frame.image_path]   \* "Image file not found: "
    ELSE IF args.fail_at = k
    THEN [raised |-> TRUE, value |-> <<"L","L","M"," ","c","a","l","l"," ","f","a","i","l","e","d">>]   \* "LLM call failed"
    ELSE [raised |-> FALSE,
          value |-> reponse_to_string(
                        Replies(IF args.mode = <<"i","m","a","g","e">> THEN "ImagePrompt"   \* "image"
                                                         ELSE "VideoPrompt").required)]

\* app.py, lines 111-116: one pass of the loop, or the return after it.
App_Generate ==
    /\ pc = "generate"
    /\ IF frame.i < args.num_outputs
       THEN /\ effects' = Append(effects, "run_llm")
            /\ IF RunLlmResult(frame.i + 1).raised
               THEN /\ pc' = "finally"
                    /\ frame' = [frame EXCEPT !.pending =
                                    GenerationFailed(RunLlmResult(frame.i + 1).value)]
               ELSE /\ pc' = pc
                    /\ frame' = [frame EXCEPT !.i = @ + 1,
                                    !.prompts = Append(@, RunLlmResult(frame.i + 1).value)]
       ELSE /\ effects' = effects
            /\ Leave([status |-> "success", prompts |-> frame.prompts,
                      mode |-> args.mode, num_outputs |-> args.num_outputs])
    /\ UNCHANGED <<args, prompt, out, nassign, files>>

\* The pending value is returned, or the pending exception raised.
Finish ==
    /\ out' = frame.pending
    /\ pc' = IF "exc" \in DOMAIN frame.pending THEN "raised" ELSE "returned"

\* Faulty variant: the file is deleted only when the request succeeded.
App_Finally_OnSuccessOnly ==
    /\ pc = "finally"
    /\ IF Truthy(frame.image_path) /\ frame.image_path \in files
          /\ "exc" \notin DOMAIN frame.pending
       THEN IF args.unlink_ok
            THEN /\ files' = files \ {frame.image_path}
                 /\ effects' = Append(effects, "unlink")
            ELSE /\ files' = files
                 /\ effects' = effects \o <<"unlink", "warning">>
       ELSE UNCHANGED <<files, effects>>
    /\ Finish
    /\ UNCHANGED <<args, prompt, nassign, frame>>

\* app.py, lines 123-129: a deletion that fails is reported by a warning
\* and changes nothing else.
App_Finally ==
    /\ pc = "finally"
    /\ IF Truthy(frame.image_path) /\ frame.image_path \in files
       THEN IF args.unlink_ok
            THEN /\ files' = files \ {frame.image_path}
                 /\ effects' = Append(effects, "unlink")
            ELSE /\ files' = files
                 /\ effects' = effects \o <<"unlink", "warning">>
       ELSE UNCHANGED <<files, effects>>
    /\ Finish
    /\ UNCHANGED <<args, prompt, nassign, frame>>

AppNext ==
    \/ App_CheckContentType
    \/ App_SaveUpload
    \/ App_Generate
    \/ App_Finally

AppSpec == AppInit /\ [][AppNext]_vars

Made(call) == \E i \in 1..Len(effects) : effects[i] = call

Finished == pc \in {"returned", "raised"}

\* The content type of the upload is image/*.
Accepted ==
    /\ args.image.present
    /\ Truthy(args.image.content_type)
    /\ startswith(args.image.content_type, <<"i","m","a","g","e","/">>)   \* "image/"

\* The parts of C30 that do not depend on the deletion: a file is created
\* only for an accepted upload, under a name no other file has, and no
\* other file is touched; a rejected upload is answered with 400, creates
\* no file and calls no LLM.
C30_Creation ==
    /\ OtherUpload \in files
    /\ files # {OtherUpload} =>
           /\ Accepted
           /\ files = {OtherUpload, UniquePath}
           /\ UniquePath # OtherUpload
           /\ Made("open")
    /\ (pc # "call" /\ args.image.present /\ ~Accepted) =>
           /\ files = {OtherUpload}
           /\ ~Made("open") /\ ~Made("run_llm")
           /\ frame.pending = HTTPException(400, <<"I","n","v","a","l","i","d"," ","f","i","l","e"," ","t","y","p","e","."," ","P","l","e","a","s","e"," ","u","p","l","o","a","d"," ","a","n"," ","i","m","a","g","e"," ","f","i","l","e",".">>)   \* "Invalid file type. Please upload an image file."
           /\ Finished => out = frame.pending

\* C30 as stated: once the request has finished, in whatever way, the
\* temporary file does not exist.
C30_TempFileGone ==
    /\ C30_Creation
    /\ Finished => files = {OtherUpload}

\* C30, amended: once the request has finished the temporary file does not
\* exist, unless deleting it failed, which the handler reports by a warning
\* without changing the outcome of the request.
C30_TempFileGoneUnlessUnlinkFails ==
    /\ C30_Creation
    /\ Finished =>
           \/ files = {OtherUpload}
           \/ /\ ~args.unlink_ok
              /\ Made("warning")
              /\ files = {OtherUpload, UniquePath}
    /\ (Finished /\ args.unlink_ok) => ~Made("warning")
    /\ Finished => out = frame.pending

\* The second of two LLM calls fails after the upload was saved; the request
\* ends with status 500 and the file is gone.
C30_Witness ==
    /\ pc = "raised"
    /\ out.status_code = 500
    /\ args.num_outputs = 2 /\ args.fail_at = 2
    /\ Made("unlink")
    /\ frame.image_path = <<"7","a","2","f",".","p","n","g">>   \* "7a2f.png"
    /\ Len(frame.prompts) = 1
    /\ files = {OtherUpload}

(***************************************************************************)
(* Concurrent callers.  Two callers run at the same time, each one call:   *)
(* reponse_to_string on one shared record instance, followed block by      *)
(* block (parser.py keeps its lists in locals, lines 15, 33, 53, 87, 100), *)
(* or a function of the template builder, which reads the schema classes   *)
(* only.  prompt is the shared instance; pc, frame and out hold one entry  *)
(* per caller; effects records when each call began and returned.          *)
(***************************************************************************)

Callers == {1, 2}

\* The k-th block of appends to parts: parser.py, lines 17-73 and 75-124
Section(p, k) ==
    IF p.cls = "ImagePrompt"
    THEN CASE k = 1 -> ImageCore(p)
           [] k = 2 -> CameraSpecs(p)
           [] k = 3 -> ImageLighting(p)
           [] k = 4 -> CompositionParts(p)
           [] k = 5 -> ColorAndMood(p)
           [] k = 6 -> QualityAndReference(p)
    ELSE CASE k = 1 -> VideoCore(p)
           [] k = 2 -> CameraParts(p)
           [] k = 3 -> LightingParts(p)
           [] k = 4 -> StyleAndEmotion(p)
           [] k = 5 -> MotionParts(p)
           [] k = 6 -> ReferenceStyle(p)

\* What one caller calls.
ConcurrentCalls ==
    { [fn |-> "reponse_to_string"],
      [fn |-> "get_enum_choices"],
      [fn |-> "format_example_section"] }

ConcurrentInit ==
    /\ args \in [given : {Replies(c)[r] : c \in {"ImagePrompt", "VideoPrompt"},
                                          r \in {"required", "full"}},
                 calls : [Callers -> ConcurrentCalls]]
    /\ prompt = args.given
    /\ pc = [t \in Callers |-> "call"]
    /\ out = [t \in Callers |-> None]
    /\ nassign = 0
    /\ effects = <<>>
    /\ files = {}
    /\ frame = [t \in Callers |-> [parts |-> <<>>, k |-> 1, optimized_prompt |-> <<>>]]

Event(t, event) == [caller |-> t, event |-> event]

\* Faulty variant: parts is one list at module level, shared by all calls.
AppendParts_Shared(t, new) ==
    frame' = [u \in Callers |->
                 [frame[u] EXCEPT !.parts = @ \o new,
                                  !.k = IF u = t THEN @ + 1 ELSE @]]

\* parts.append(...) on the list of the call of caller t (parser.py, line 15)
AppendParts(t, new) ==
    frame' = [frame EXCEPT ![t].parts = @ \o new, ![t].k = @ + 1]

\* One block of reponse_to_string(prompt) run by caller t.
Flatten_Section(t) ==
    /\ args.calls[t].fn = "reponse_to_string"
    /\ pc[t] \in {"call", "sections"}
    /\ frame[t].k <= 6
    /\ AppendParts(t, Section(prompt, frame[t].k))
    /\ pc' = [pc EXCEPT ![t] = "sections"]
    /\ effects' = IF pc[t] = "call" THEN Append(effects, Event(t, "call")) ELSE effects
    /\ UNCHANGED <<args, prompt, out, nassign, files>>

\* parser.py, line 127
Flatten_Join(t) ==
    /\ pc[t] = "sections"
    /\ frame[t].k = 7
    /\ frame' = [frame EXCEPT ![t].optimized_prompt = JoinParts(frame[t].parts)]
    /\ pc' = [pc EXCEPT ![t] = "joined"]
    /\ UNCHANGED <<args, prompt, out, nassign, effects, files>>

\* parser.py, lines 130-138
Flatten_Directives(t) ==
    /\ pc[t] = "joined"
    /\ out' = [out EXCEPT ![t] = frame[t].optimized_prompt
                                    \o NegativeDirective(prompt) \o AspectDirective(prompt)]
    /\ pc' = [pc EXCEPT ![t] = "returned"]
    /\ effects' = Append(effects, Event(t, "return"))
    /\ UNCHANGED <<args, prompt, nassign, files, frame>>

\* What the builder function called returns: it reads the enum class, or
\* the Config of the instance's class.
BuilderResult(call) ==
    IF call.fn = "get_enum_choices"
    THEN get_enum_choices(ShotTypeClass, TRUE)
    ELSE format_example_section(get_schema_example(prompt.cls))

\* A function of creation.py run by caller t.
Build(t) ==
    /\ args.calls[t].fn # "reponse_to_string"
    /\ pc[t] = "call"
    /\ out' = [out EXCEPT ![t] = BuilderResult(args.calls[t])]
    /\ pc' = [pc EXCEPT ![t] = "returned"]
    /\ effects' = effects \o <<Event(t, "call"), Event(t, "return")>>
    /\ UNCHANGED <<args, prompt, nassign, files, frame>>

ConcurrentNext ==
    \E t \in Callers :
        \/ Flatten_Section(t)
        \/ Flatten_Join(t)
        \/ Flatten_Directives(t)
        \/ Build(t)

ConcurrentSpec == ConcurrentInit /\ [][ConcurrentNext]_vars

\* What the call of caller t returns when nothing else runs.
Alone(t) ==
    IF args.calls[t].fn = "reponse_to_string"
    THEN reponse_to_string(args.given)
    ELSE BuilderResult(args.calls[t])

====
